---------------------------- MODULE Spec2Model ----------------------------
(***************************************************************************)
(* ACesiumGeoreference (cesium-unreal): the georeference origin and its    *)
(* transform chain, the registry of georeferenced objects, the sub-level   *)
(* proximity selector and the floating-origin rebasing controller, as a    *)
(* state machine driven by the host's Tick.                                *)
(*                                                                         *)
(* Arithmetic is exact integer arithmetic.  Lengths in the engine frame    *)
(* are numerators over FloatDen (an engine float f is FloatDen * f), ECEF  *)
(* coordinates are numerators over UnitsPerMeter * FloatDen.  Longitudes   *)
(* and latitudes are multiples of 90 degrees, where sine and cosine are    *)
(* integers, and the ellipsoid is scaled down to EarthRadius so that       *)
(* neighbouring origins lie within load radius of one another.             *)
(***************************************************************************)
EXTENDS Integers, Sequences, FiniteSets, TLC

(* ------------------------------ bounds -------------------------------- *)

\* Width in bits of the engine's integer world-origin components (int32 in
\* the source, scaled down so that saturation is reachable).
IntBits == 4

\* Engine floats are multiples of 1 / FloatDen.
FloatDen == 2

\* Equatorial radius of the ellipsoid, in metres (scaled down).
EarthRadius == 2

\* Largest absolute engine coordinate (in engine units) the viewer visits.
WorldExtent == 3

\* Most entries the host's streaming-level list holds.
MaxStreaming == 2

\* Georeferenced objects that exist.
MaxObjects == 2

(* --------------------------- vectors, matrices ------------------------ *)

Abs(x) == IF x < 0 THEN -x ELSE x

Sign(x) == IF x < 0 THEN -1 ELSE IF x > 0 THEN 1 ELSE 0

VAdd(a, b) == <<a[1] + b[1], a[2] + b[2], a[3] + b[3]>>

VSub(a, b) == <<a[1] - b[1], a[2] - b[2], a[3] - b[3]>>

VScale(k, a) == <<k * a[1], k * a[2], k * a[3]>>

Dot(a, b) == a[1] * b[1] + a[2] * b[2] + a[3] * b[3]

Cross(a, b) ==
    <<a[2] * b[3] - a[3] * b[2],
      a[3] * b[1] - a[1] * b[3],
      a[1] * b[2] - a[2] * b[1]>>

\* glm::normalize, on the vectors the model builds frames from: those along
\* one coordinate axis, whose unit vector is the vector of signs.
Normalize(v) == <<Sign(v[1]), Sign(v[2]), Sign(v[3])>>

\* Squared length: glm::length compared through its square.
LengthSq(v) == Dot(v, v)

ZeroVec == <<0, 0, 0>>

Identity3 == <<<<1, 0, 0>>, <<0, 1, 0>>, <<0, 0, 1>>>>

\* The 3x3 matrix whose columns are c1, c2, c3 (rows are stored).
FromColumns(c1, c2, c3) ==
    <<<<c1[1], c2[1], c3[1]>>, <<c1[2], c2[2], c3[2]>>, <<c1[3], c2[3], c3[3]>>>>

MulVec(m, v) == <<Dot(m[1], v), Dot(m[2], v), Dot(m[3], v)>>

Column(m, j) == <<m[1][j], m[2][j], m[3][j]>>

MulMat(a, b) ==
    [i \in 1..3 |-> [j \in 1..3 |-> Dot(a[i], Column(b, j))]]

Det3(m) == Dot(m[1], Cross(m[2], m[3]))

\* Inverse of a 3x3 matrix of determinant 1 or -1: adjugate / determinant.
Inverse3(m) ==
    LET d == Det3(m)
        r1 == Cross(m[2], m[3])
        r2 == Cross(m[3], m[1])
        r3 == Cross(m[1], m[2])
    IN  FromColumns(VScale(d, r1), VScale(d, r2), VScale(d, r3))

\* An affine 4x4 matrix: x |-> (m x) / den + t.  den is 1 except for the
\* metres-per-unit scale.
Affine(m, t, den) == [m |-> m, t |-> t, den |-> den]

IdentityMat == Affine(Identity3, ZeroVec, 1)

\* The matrix product a * b of two affine maps (b applied first).
MatMul(a, b) ==
    Affine(MulMat(a.m, b.m),
           VAdd(<<MulVec(a.m, b.t)[1] \div a.den,
                  MulVec(a.m, b.t)[2] \div a.den,
                  MulVec(a.m, b.t)[3] \div a.den>>, a.t),
           a.den * b.den)

\* glm::affineInverse of a matrix with den = 1.
affineInverse(a) ==
    LET inv == Inverse3(a.m)
    IN  Affine(inv, VScale(-1, MulVec(inv, a.t)), 1)


\* x |-> a(x) for a point whose coordinates are numerators over s: the
\* result's are numerators over s * a.den.
TransformPoint(a, v, s) == VAdd(MulVec(a.m, v), VScale(s * a.den, a.t))

(* ------------------------ geodesy (CesiumGeospatial) ------------------ *)

\* The highest zoom level configured on a raster overlay.
MaxZoomLevel == 4

\* Engine units per metre (CesiumTransforms::scaleToUnrealWorld, 100 in the
\* plugin; scaled down with the integer width).
UnitsPerMeter == 2

CosDeg(d) == CASE d = 0 -> 1 [] d = 180 -> -1 [] d = -180 -> -1 [] OTHER -> 0

SinDeg(d) == CASE d = 90 -> 1 [] d = -90 -> -1 [] OTHER -> 0

\* Ellipsoid::geodeticSurfaceNormal(Cartographic::fromDegrees(lon, lat, _)).
SurfaceNormal(lon, lat) ==
    <<CosDeg(lat) * CosDeg(lon), CosDeg(lat) * SinDeg(lon), SinDeg(lat)>>

\* Ellipsoid::cartographicToCartesian(Cartographic::fromDegrees(lon, lat, h)),
\* in metres: the surface point radii^2 * n / sqrt(n . radii^2 n) plus h * n,
\* where n is a unit vector along one axis.
cartographicToCartesian(lon, lat, h) ==
    LET n == SurfaceNormal(lon, lat)
    IN  VAdd(VScale(EarthRadius, n), VScale(h, n))

\* Ellipsoid::cartesianToCartographic for a position on a coordinate axis,
\* its coordinates numerators over s: <<longitude, latitude, height>> in
\* degrees and metres, and <<>> (no result) at the centre of the ellipsoid.
cartesianToCartographic(p, s) ==
    IF p = ZeroVec THEN <<>>
    ELSE IF p[3] # 0 THEN <<0, 90 * Sign(p[3]), (Abs(p[3]) \div s) - EarthRadius>>
    ELSE IF p[2] # 0 THEN <<90 * Sign(p[2]), 0, (Abs(p[2]) \div s) - EarthRadius>>
    ELSE <<IF p[1] > 0 THEN 0 ELSE 180, 0, (Abs(p[1]) \div s) - EarthRadius>>

\* Transforms::eastNorthUpToFixedFrame(origin): columns east, north, up and
\* the translation origin, with the library's frames at the centre and on
\* the polar axis.
eastNorthUpToFixedFrame(origin) ==
    IF origin = ZeroVec
    THEN Affine(FromColumns(<<0, 1, 0>>, <<-1, 0, 0>>, <<0, 0, 1>>), origin, 1)
    ELSE IF origin[1] = 0 /\ origin[2] = 0
    THEN Affine(FromColumns(<<0, 1, 0>>, <<-Sign(origin[3]), 0, 0>>,
                            <<0, 0, Sign(origin[3])>>), origin, 1)
    ELSE LET up == Normalize(origin)
             east == Normalize(<<-origin[2], origin[1], 0>>)
             north == Cross(up, east)
         IN  Affine(FromColumns(east, north, up), origin, 1)

(* ----------------------------- CesiumTransforms ----------------------- *)

\* Engine units to metres.
scaleToCesium == Affine(Identity3, ZeroVec, UnitsPerMeter)

\* Metres to engine units.
scaleToUnrealWorld ==
    Affine(<<<<UnitsPerMeter, 0, 0>>, <<0, UnitsPerMeter, 0>>,
             <<0, 0, UnitsPerMeter>>>>, ZeroVec, 1)

\* The engine's left-handed axes against ECEF's right-handed ones: Y flips.
unrealToOrFromCesium ==
    Affine(<<<<1, 0, 0>>, <<0, -1, 0>>, <<0, 0, 1>>>>, ZeroVec, 1)

(* -------------------------------- state ------------------------------- *)

VARIABLES
    phase,                  \* "Ready" (constructed) or "Playing" (after BeginPlay)
    OriginPlacement,        \* EOriginPlacement
    OriginLongitude, OriginLatitude, OriginHeight,
    georeferencedToEcef, ecefToGeoreferenced, ueAbsToEcef, ecefToUeAbs,
    insideSublevel,         \* _insideSublevel
    CesiumSubLevels,        \* sequence of FCesiumSubLevel
    georeferencedObjects,   \* _georeferencedObjects: weak pointers, in order
    WorldOriginCamera,      \* "null", "valid" or "stale" (destroyed)
    KeepWorldOriginNearCamera, OriginRebaseInsideSublevels,
    MaximumWorldOriginDistanceFromCamera,
    \* the host: UWorld, its streaming levels, the camera, the objects
    isGameWorld,
    OriginLocation,         \* UWorld::OriginLocation, engine units
    streamingLevels,        \* sequence of ULevelStreaming
    cameraLocation,         \* ViewTarget.POV.Location, numerators over FloatDen
    liveObjects,            \* the objects not yet destroyed
    boundingVolume,         \* per object: "notReady", "none" or its centre (ECEF, m)
    \* what the last operation did
    lastOp,                 \* its name, with the arguments that matter
    stepParity,             \* flips with every operation
    recomputations,         \* how many times it ran UpdateGeoreference
    notified,               \* objects whose NotifyGeoreferenceUpdated it called
    notifiedChain,          \* the four matrices in place during those calls
                            \* (when the last of them returned)
    notifications,          \* those calls one by one: the object, the depth of
                            \* the pass that made the call, and the origin and
                            \* the engine -> ECEF matrix in place
    hostCalls,              \* its requests to the host, in order
    candidate,              \* _updateSublevelState's currentCesiumSublevel (0: none)
    returned                \* the value it returned to its caller (<<>>: none)

chain == <<georeferencedToEcef, ecefToGeoreferenced, ueAbsToEcef, ecefToUeAbs>>

origin == <<OriginLongitude, OriginLatitude, OriginHeight>>

config == <<OriginPlacement, KeepWorldOriginNearCamera,
            OriginRebaseInsideSublevels, MaximumWorldOriginDistanceFromCamera,
            isGameWorld>>

history == <<lastOp, stepParity, recomputations, notified, notifiedChain,
             notifications, hostCalls, candidate, returned>>

vars == <<phase, origin, chain, insideSublevel, CesiumSubLevels,
          georeferencedObjects, WorldOriginCamera, config, OriginLocation,
          streamingLevels, cameraLocation, liveObjects, boundingVolume,
          history>>

(* ------------------------- the transform chain ------------------------ *)

Objects == 1..MaxObjects

\* A validity test that every entry passes, destroyed or not.
IsAnyEntry(o) == o \in Objects

\* TWeakInterfacePtr::IsValid.
IsValidObject(o) == o \in liveObjects

RECURSIVE SumCenters(_, _)
\* UpdateGeoreference's loop over the registry in bounding-volume mode: the
\* sum of the centres and their number, <<center, numberOfPositions>>.
SumCenters(objs, acc) ==
    IF objs = <<>> THEN acc
    ELSE LET o == Head(objs)
             counted == /\ IsValidObject(o)
                        /\ boundingVolume[o] # "notReady"
                        /\ boundingVolume[o] # "none"
         IN  SumCenters(Tail(objs),
                        IF counted
                        THEN <<VAdd(acc[1], boundingVolume[o]), acc[2] + 1>>
                        ELSE acc)

\* The centre without center /= numberOfPositions: the sum of the centres.
SumOfCenters(objs) == SumCenters(objs, <<ZeroVec, 0>>)[1]

\* center /= numberOfPositions, when there are positions.
BoundingVolumeCenter(objs) ==
    LET sum == SumCenters(objs, <<ZeroVec, 0>>)
    IN  IF sum[2] > 0
        THEN <<sum[1][1] \div sum[2], sum[1][2] \div sum[2], sum[1][3] \div sum[2]>>
        ELSE sum[1]

\* The matrix computed without regard to the placement: always the frame at
\* the cartographic origin.
CartographicFrameFor(placement, lon, lat, h, objs) ==
    eastNorthUpToFixedFrame(cartographicToCartesian(lon, lat, h))

\* The georeferenced -> ECEF matrix UpdateGeoreference computes.
GeoreferencedToEcefFor(placement, lon, lat, h, objs) ==
    IF placement = "TrueOrigin" THEN IdentityMat
    ELSE LET center ==
                 IF placement = "BoundingVolumeOrigin"
                 THEN BoundingVolumeCenter(objs)
                 ELSE IF placement = "CartographicOrigin"
                 THEN cartographicToCartesian(lon, lat, h)
                 ELSE ZeroVec
         IN  eastNorthUpToFixedFrame(center)

\* The four matrices UpdateGeoreference computes, in the order of chain.
ChainFor(g2e) ==
    LET e2g == affineInverse(g2e)
    IN  <<g2e,
          e2g,
          MatMul(MatMul(g2e, scaleToCesium), unrealToOrFromCesium),
          MatMul(MatMul(unrealToOrFromCesium, scaleToUnrealWorld), e2g)>>

\* The notification loop without its IsValid test: every entry is notified.
NotifyAllEntries(objs) == objs

RECURSIVE NotifyAll(_)
\* UpdateGeoreference's notification loop: the objects notified, in order.
NotifyAll(objs) ==
    IF objs = <<>> THEN <<>>
    ELSE IF IsValidObject(Head(objs))
         THEN <<Head(objs)>> \o NotifyAll(Tail(objs))
         ELSE NotifyAll(Tail(objs))

\* A notification loop placed before the two engine-frame matrices are
\* assigned: the objects see the new first half and the old second half.
ChainHalfUpdated(before, after) == <<after[1], after[2], before[3], before[4]>>

\* The matrices in place when UpdateGeoreference's notification loop runs:
\* all four have been assigned by then.
ChainAtNotification(before, after) == after

\* One call of NotifyGeoreferenceUpdated: on object, by the notification
\* loop of the pass at the given depth of nesting (1: the operation's own),
\* with the origin and the engine -> ECEF matrix in place at the call.
Notification(object, depth, lonLatHeight, ueToEcef) ==
    [object |-> object, depth |-> depth, origin |-> lonLatHeight,
     ueAbsToEcef |-> ueToEcef]

\* ACesiumGeoreference::UpdateGeoreference, run with the origin (lon, lat, h)
\* and the registry objs in place.  No SunSky actor is assigned, and no
\* object calls the georeference back from NotifyGeoreferenceUpdated.
UpdateGeoreference(lon, lat, h, objs) ==
    LET c == ChainFor(GeoreferencedToEcefFor(OriginPlacement, lon, lat, h, objs))
    IN  /\ georeferencedToEcef' = c[1]
        /\ ecefToGeoreferenced' = c[2]
        /\ ueAbsToEcef' = c[3]
        /\ ecefToUeAbs' = c[4]
        /\ notified' = NotifyAll(objs)
        /\ notifiedChain' = ChainAtNotification(chain, c)
        /\ notifications' =
               [k \in 1..Len(NotifyAll(objs)) |->
                   Notification(NotifyAll(objs)[k], 1, <<lon, lat, h>>, c[3])]
        /\ recomputations' = 1

\* An operation that does not reach UpdateGeoreference.
NoUpdate ==
    /\ notified' = <<>>
    /\ notifiedChain' = <<>>
    /\ notifications' = <<>>
    /\ recomputations' = 0
    /\ UNCHANGED chain

\* ACesiumGeoreference::_setGeoreferenceOrigin.
setGeoreferenceOrigin(lon, lat, h) ==
    /\ OriginLongitude' = lon
    /\ OriginLatitude' = lat
    /\ OriginHeight' = h
    /\ UpdateGeoreference(lon, lat, h, georeferencedObjects)

(* ------------------------------ sub-levels ---------------------------- *)

\* FCesiumSubLevel.
SubLevel(name, lon, lat, h, radius, loaded) ==
    [LevelName |-> name, LevelLongitude |-> lon, LevelLatitude |-> lat,
     LevelHeight |-> h, LoadRadius |-> radius, CurrentlyLoaded |-> loaded]

\* ULevelStreaming: the package name of its world asset, <<folder, prefix,
\* base>> for "<folder>/<prefix><base>", and what the host was last asked for.
StreamingLevel(package) ==
    [package |-> package, shouldBeLoaded |-> FALSE, shouldBeVisible |-> FALSE]

\* FPackageName::GetShortName: the part after the last slash, <<prefix, base>>.
GetShortName(package) == <<package[2], package[3]>>

\* UWorld::StreamingLevelsPrefix (empty outside play-in-editor).
StreamingLevelsPrefix == ""

\* FString::RemoveFromStart.
RemoveFromStart(name, prefix) ==
    IF prefix # "" /\ name[1] = prefix THEN <<"", name[2]>> ELSE name

\* The levelName both loops over the streaming levels compute.
LevelNameOf(streamedLevel) ==
    RemoveFromStart(GetShortName(streamedLevel.package), StreamingLevelsPrefix)

\* levelName.Equals(subLevel.LevelName).
NameEquals(levelName, str) == levelName[1] = "" /\ levelName[2] = str

\* The inner loop's search: the first sub-level of that name (0: none).
FirstNamed(levels, levelName) ==
    IF \E k \in 1..Len(levels) : NameEquals(levelName, levels[k].LevelName)
    THEN CHOOSE k \in 1..Len(levels) :
             /\ NameEquals(levelName, levels[k].LevelName)
             /\ \A j \in 1..(k - 1) : ~NameEquals(levelName, levels[j].LevelName)
    ELSE 0

\* cameraAbsolute, numerators over FloatDen.
CameraAbsolute(camera, originLocation) ==
    VAdd(camera, VScale(FloatDen, originLocation))

\* cameraECEF = _ueAbsToEcef * cameraAbsolute, numerators over
\* UnitsPerMeter * FloatDen.
CameraECEF(ueToEcef, camera, originLocation) ==
    TransformPoint(ueToEcef, CameraAbsolute(camera, originLocation), FloatDen)

\* levelECEF, numerators over UnitsPerMeter * FloatDen.
LevelECEF(level) ==
    VScale(UnitsPerMeter * FloatDen,
           cartographicToCartesian(level.LevelLongitude, level.LevelLatitude,
                                   level.LevelHeight))

\* levelDistance squared, in (1 / (UnitsPerMeter * FloatDen))^2 square metres.
LevelDistanceSq(level, cameraEcef) == LengthSq(VSub(LevelECEF(level), cameraEcef))

\* levelDistance < level.LoadRadius.
WithinLoadRadius(level, distSq) ==
    distSq < (level.LoadRadius * UnitsPerMeter * FloatDen)
             * (level.LoadRadius * UnitsPerMeter * FloatDen)

\* The comparison made non-strict: a sub-level as near as the current one
\* replaces it.
NotFartherThan(distSq, closest) == closest = -1 \/ distSq <= closest

\* levelDistance < closestLevelDistance; closest = -1 stands for
\* TNumericLimits<double>::Max().
CloserThan(distSq, closest) == closest = -1 \/ distSq < closest

\* The test without its second half: any sub-level within its radius.
IsWithinRadiusOnly(level, distSq, closest) == WithinLoadRadius(level, distSq)

\* The test that makes a sub-level the current one.
IsNewClosest(level, distSq, closest) ==
    WithinLoadRadius(level, distSq) /\ CloserThan(distSq, closest)

HostCall(op, target) == [op |-> op, target |-> target]

\* SetShouldBeLoaded(b) and SetShouldBeVisible(b) on streaming level i.
SetShouldBe(streaming, i, b) ==
    [streaming EXCEPT ![i].shouldBeLoaded = b, ![i].shouldBeVisible = b]

\* One pass of the outer loop of _updateSublevelState, for streaming level i.
\* st: currentSublevel (cur), currentCesiumSublevel (curLevel),
\* closestLevelDistance squared (closest), and the sub-levels, streaming
\* levels and host calls so far.
SublevelStep(st, i, cameraEcef) ==
    LET k == FirstNamed(st.levels, LevelNameOf(st.streaming[i]))
    IN  IF k = 0 THEN st
        ELSE LET d == LevelDistanceSq(st.levels[k], cameraEcef)
             IN  IF IsNewClosest(st.levels[k], d, st.closest)
                 THEN LET drop == /\ st.cur # 0
                                  /\ st.curLevel # 0
                                  /\ st.levels[st.curLevel].CurrentlyLoaded
                          lv == IF drop
                                THEN [st.levels EXCEPT
                                          ![st.curLevel].CurrentlyLoaded = FALSE]
                                ELSE st.levels
                      IN  [cur |-> i, curLevel |-> k, closest |-> d,
                           levels |-> lv,
                           streaming |-> IF drop
                                         THEN SetShouldBe(st.streaming, st.cur, FALSE)
                                         ELSE st.streaming,
                           calls |-> IF drop
                                     THEN Append(st.calls, HostCall("unload", st.cur))
                                     ELSE st.calls]
                 ELSE IF st.levels[k].CurrentlyLoaded
                      THEN [st EXCEPT
                               !.levels = [st.levels EXCEPT
                                              ![k].CurrentlyLoaded = FALSE],
                               !.streaming = SetShouldBe(st.streaming, i, FALSE),
                               !.calls = Append(st.calls, HostCall("unload", i))]
                      ELSE st

RECURSIVE SublevelLoop(_, _, _)
\* The outer loop, from streaming level i on.
SublevelLoop(st, i, cameraEcef) ==
    IF i > Len(st.streaming) THEN st
    ELSE SublevelLoop(SublevelStep(st, i, cameraEcef), i + 1, cameraEcef)

\* _updateSublevelState up to its final test: the loop's result.
SublevelScan ==
    SublevelLoop([cur |-> 0, curLevel |-> 0, closest |-> -1,
                  levels |-> CesiumSubLevels, streaming |-> streamingLevels,
                  calls |-> <<>>],
                 1, CameraECEF(ueAbsToEcef, cameraLocation, OriginLocation))

\* IsValid(WorldOriginCamera).
CameraValid == WorldOriginCamera = "valid"

(* --------------------------- origin rebasing -------------------------- *)

\* TNumericLimits<int32>::Min() and Max(), at the model's width.
Int32Min == -(2 ^ (IntBits - 1))

Int32Max == 2 ^ (IntBits - 1) - 1

Min(a, b) == IF a < b THEN a ELSE b

Max(a, b) == IF a > b THEN a ELSE b

\* static_cast<int64>(f) of a float f: truncation toward zero.
TruncToInt64(f) == Sign(f) * (Abs(f) \div FloatDen)

\* static_cast<int32>(x) of a 64 bit x: the low bits, two's complement.
CastToInt32(x) == ((x - Int32Min) % (2 ^ IntBits)) + Int32Min

\* The sum narrowed to 32 bits without the clamp: it wraps.
wrappingAdd(f, i) == CastToInt32(TruncToInt64(f) + i)

\* clampedAdd(f, i).
clampedAdd(f, i) ==
    LET sum == TruncToInt64(f) + i
        clamped == Max(Int32Min, Min(Int32Max, sum))
    IN  CastToInt32(clamped)

\* !cameraLocation.Equals(FVector::ZeroVector, tolerance): FVector::Equals
\* compares each component's difference with the tolerance.
DistanceTooLarge(camera, tolerance) ==
    ~(/\ Abs(camera[1]) <= tolerance * FloatDen
      /\ Abs(camera[2]) <= tolerance * FloatDen
      /\ Abs(camera[3]) <= tolerance * FloatDen)

NoRequest == [set |-> FALSE, v |-> ZeroVec]

Request(v) == [set |-> TRUE, v |-> v]

\* _performOriginRebasing without its sub-level branch: the world origin
\* follows the viewer whether or not a sub-level is current.
rebasingIgnoringSublevels(inside) ==
    IF ~isGameWorld THEN NoRequest
    ELSE IF ~CameraValid THEN NoRequest
    ELSE IF ~KeepWorldOriginNearCamera THEN NoRequest
    ELSE IF DistanceTooLarge(cameraLocation, MaximumWorldOriginDistanceFromCamera)
    THEN Request(<<clampedAdd(cameraLocation[1], OriginLocation[1]),
                   clampedAdd(cameraLocation[2], OriginLocation[2]),
                   clampedAdd(cameraLocation[3], OriginLocation[3])>>)
    ELSE NoRequest

\* _performOriginRebasing without its first guard: it rebases in editor
\* worlds as well.
rebasingInAnyWorld(inside) ==
    IF ~CameraValid THEN NoRequest
    ELSE IF ~KeepWorldOriginNearCamera THEN NoRequest
    ELSE IF inside /\ ~OriginRebaseInsideSublevels
    THEN IF OriginLocation # ZeroVec THEN Request(ZeroVec) ELSE NoRequest
    ELSE IF DistanceTooLarge(cameraLocation, MaximumWorldOriginDistanceFromCamera)
    THEN Request(<<clampedAdd(cameraLocation[1], OriginLocation[1]),
                   clampedAdd(cameraLocation[2], OriginLocation[2]),
                   clampedAdd(cameraLocation[3], OriginLocation[3])>>)
    ELSE NoRequest

\* _performOriginRebasing with _insideSublevel = inside: the world origin it
\* passes to SetNewWorldOrigin, if any.
performOriginRebasing(inside) ==
    IF ~isGameWorld THEN NoRequest
    ELSE IF ~CameraValid THEN NoRequest
    ELSE IF ~KeepWorldOriginNearCamera THEN NoRequest
    ELSE IF inside /\ ~OriginRebaseInsideSublevels
    THEN IF OriginLocation # ZeroVec THEN Request(ZeroVec) ELSE NoRequest
    ELSE IF DistanceTooLarge(cameraLocation, MaximumWorldOriginDistanceFromCamera)
    THEN Request(<<clampedAdd(cameraLocation[1], OriginLocation[1]),
                   clampedAdd(cameraLocation[2], OriginLocation[2]),
                   clampedAdd(cameraLocation[3], OriginLocation[3])>>)
    ELSE NoRequest

\* UWorld::SetNewWorldOrigin(v), if requested: the host moves its origin and
\* shifts every actor, the camera among them, so that absolute positions stay.
ApplyWorldOrigin(req) ==
    IF req.set
    THEN /\ OriginLocation' = req.v
         /\ cameraLocation' =
                VSub(cameraLocation, VScale(FloatDen, VSub(req.v, OriginLocation)))
    ELSE UNCHANGED <<OriginLocation, cameraLocation>>

(* ------------------------------ operations ---------------------------- *)

Op(name, arg) == [name |-> name, arg |-> arg]

\* What every operation records of itself, value being what it returns.
RecordReturning(name, arg, value) ==
    /\ lastOp' = Op(name, arg)
    /\ stepParity' = 1 - stepParity
    /\ returned' = value

\* What an operation that returns nothing records of itself.
Record(name, arg) == RecordReturning(name, arg, <<>>)

\* The origins callers pass, <<longitude, latitude, height>>.
OriginArgs == {<<0, 0, 0>>, <<0, 0, 1>>, <<90, 0, 0>>}

\* OnConstruction (the engine calls it once the actor is spawned).
OnConstruction ==
    /\ phase = "Constructed"
    /\ phase' = "Ready"
    /\ Record("OnConstruction", <<>>)
    /\ UpdateGeoreference(OriginLongitude, OriginLatitude, OriginHeight,
                          georeferencedObjects)
    /\ hostCalls' = <<>>
    /\ candidate' = 0
    /\ UNCHANGED <<origin, insideSublevel, CesiumSubLevels, georeferencedObjects,
                   WorldOriginCamera, config, OriginLocation, streamingLevels,
                   cameraLocation, liveObjects, boundingVolume>>

\* SetGeoreferenceOrigin without its test of _insideSublevel.
SetGeoreferenceOriginUnguarded(target) ==
    setGeoreferenceOrigin(target[1], target[2], target[3])

\* The body of SetGeoreferenceOrigin(target).
SetGeoreferenceOriginBody(target) ==
    IF insideSublevel
    THEN /\ NoUpdate
         /\ UNCHANGED origin
    ELSE setGeoreferenceOrigin(target[1], target[2], target[3])

\* ACesiumGeoreference::SetGeoreferenceOrigin.
SetGeoreferenceOrigin(target) ==
    /\ phase # "Constructed"
    /\ Record("SetGeoreferenceOrigin", target)
    /\ SetGeoreferenceOriginBody(target)
    /\ hostCalls' = <<>>
    /\ candidate' = 0
    /\ UNCHANGED <<phase, insideSublevel, CesiumSubLevels, georeferencedObjects,
                   WorldOriginCamera, config, OriginLocation, streamingLevels,
                   cameraLocation, liveObjects, boundingVolume>>

\* ACesiumGeoreference::InaccurateSetGeoreferenceOrigin: the FVector's
\* components, widened to double, go to SetGeoreferenceOrigin.
InaccurateSetGeoreferenceOrigin(target) ==
    /\ phase # "Constructed"
    /\ Record("InaccurateSetGeoreferenceOrigin", target)
    /\ SetGeoreferenceOriginBody(target)
    /\ hostCalls' = <<>>
    /\ candidate' = 0
    /\ UNCHANGED <<phase, insideSublevel, CesiumSubLevels, georeferencedObjects,
                   WorldOriginCamera, config, OriginLocation, streamingLevels,
                   cameraLocation, liveObjects, boundingVolume>>

\* A duplicate search that finds nothing.
NeverRegistered(o) == FALSE

\* Whether AddGeoreferencedObject's duplicate search finds Object.
AlreadyRegistered(o) ==
    \E k \in 1..Len(georeferencedObjects) :
        IsValidObject(georeferencedObjects[k]) /\ georeferencedObjects[k] = o

\* The new entry put in front of the registry.
RegistryWithObjectFirst(o) == <<o>> \o georeferencedObjects

\* _georeferencedObjects.Add(Object): the registry with the new entry.
RegistryWithObject(o) == Append(georeferencedObjects, o)

\* ACesiumGeoreference::AddGeoreferencedObject, called with a live object.
AddGeoreferencedObject(o) ==
    /\ phase # "Constructed"
    /\ IsValidObject(o)
    /\ Record("AddGeoreferencedObject", <<o>>)
    /\ IF AlreadyRegistered(o)
       THEN /\ NoUpdate
            /\ UNCHANGED georeferencedObjects
       ELSE /\ georeferencedObjects' = RegistryWithObject(o)
            /\ UpdateGeoreference(OriginLongitude, OriginLatitude, OriginHeight,
                                  RegistryWithObject(o))
    /\ hostCalls' = <<>>
    /\ candidate' = 0
    /\ UNCHANGED <<phase, origin, insideSublevel, CesiumSubLevels,
                   WorldOriginCamera, config, OriginLocation, streamingLevels,
                   cameraLocation, liveObjects, boundingVolume>>

(* ------------------- notification with objects calling back ----------- *)

\* How many times one object's NotifyGeoreferenceUpdated asks for a new
\* origin during one operation.
MaxRequests == 2

\* A pass under way: the origin and the four matrices in place, the calls of
\* NotifyGeoreferenceUpdated made so far, the origins each object's
\* NotifyGeoreferenceUpdated is still to request (one per call of it, in
\* order), and the number of runs of UpdateGeoreference.
StartOfPass(requests) ==
    [origin |-> origin, chain |-> chain, log |-> <<>>, pending |-> requests,
     runs |-> 0]

\* A NotifyGeoreferenceUpdated whose request is dropped by a reentrancy
\* guard: the georeference is busy notifying and refuses it.
NotifyGeoreferenceUpdatedGuarded(o, objs, depth, st) ==
    IF st.pending[o] = <<>> THEN st
    ELSE [st EXCEPT !.pending[o] = Tail(@)]

RECURSIVE NotificationLoop(_, _, _, _)
\* ACesiumGeoreference::UpdateGeoreference run from inside a pass, at the
\* given depth, with the origin of st in place: the four matrices, then the
\* notification loop from the first entry of the registry objs.
UpdateGeoreferenceNested(objs, depth, st) ==
    LET c == ChainFor(GeoreferencedToEcefFor(OriginPlacement, st.origin[1],
                                             st.origin[2], st.origin[3], objs))
    IN  NotificationLoop(objs, 1, depth,
                         [st EXCEPT !.chain = c, !.runs = @ + 1])

\* ACesiumGeoreference::_setGeoreferenceOrigin run from inside a pass.
setGeoreferenceOriginNested(target, objs, depth, st) ==
    UpdateGeoreferenceNested(objs, depth, [st EXCEPT !.origin = target])

\* The NotifyGeoreferenceUpdated of object o, called by the loop of the pass
\* at the given depth: it returns at once, or it calls SetGeoreferenceOrigin
\* with the next origin it is to request, which returns at its test of
\* _insideSublevel or runs _setGeoreferenceOrigin to its end before the
\* callback returns.
NotifyGeoreferenceUpdated(o, objs, depth, st) ==
    IF st.pending[o] = <<>> THEN st
    ELSE IF insideSublevel THEN [st EXCEPT !.pending[o] = Tail(@)]
    ELSE setGeoreferenceOriginNested(Head(st.pending[o]), objs, depth + 1,
                                     [st EXCEPT !.pending[o] = Tail(@)])

\* UpdateGeoreference's notification loop from entry i of the registry objs
\* on: every valid entry is called, and the loop goes on to the next entry
\* when the call has returned.
NotificationLoop(objs, i, depth, st) ==
    IF i > Len(objs) THEN st
    ELSE IF ~IsValidObject(objs[i]) THEN NotificationLoop(objs, i + 1, depth, st)
    ELSE NotificationLoop(objs, i + 1, depth,
             NotifyGeoreferenceUpdated(objs[i], objs, depth,
                 [st EXCEPT !.log = Append(@, Notification(objs[i], depth,
                                                          st.origin, st.chain[3]))]))

\* What the operation leaves when its pass has ended as st.
EndOfPass(st) ==
    /\ OriginLongitude' = st.origin[1]
    /\ OriginLatitude' = st.origin[2]
    /\ OriginHeight' = st.origin[3]
    /\ georeferencedToEcef' = st.chain[1]
    /\ ecefToGeoreferenced' = st.chain[2]
    /\ ueAbsToEcef' = st.chain[3]
    /\ ecefToUeAbs' = st.chain[4]
    /\ notified' = [k \in 1..Len(st.log) |-> st.log[k].object]
    /\ notifiedChain' = st.chain
    /\ notifications' = st.log
    /\ recomputations' = st.runs

\* ACesiumGeoreference::SetGeoreferenceOrigin, the objects' callbacks
\* requesting origins as requests says.
SetGeoreferenceOriginCallingBack(target, requests) ==
    /\ phase # "Constructed"
    /\ Record("SetGeoreferenceOrigin", [target |-> target, requests |-> requests])
    /\ IF insideSublevel
       THEN /\ NoUpdate
            /\ UNCHANGED origin
       ELSE EndOfPass(setGeoreferenceOriginNested(target, georeferencedObjects, 1,
                                                  StartOfPass(requests)))
    /\ hostCalls' = <<>>
    /\ candidate' = 0
    /\ UNCHANGED <<phase, insideSublevel, CesiumSubLevels, georeferencedObjects,
                   WorldOriginCamera, config, OriginLocation, streamingLevels,
                   cameraLocation, liveObjects, boundingVolume>>

\* ACesiumGeoreference::AddGeoreferencedObject, called with a live object,
\* the objects' callbacks requesting origins as requests says.
AddGeoreferencedObjectCallingBack(o, requests) ==
    /\ phase # "Constructed"
    /\ IsValidObject(o)
    /\ Record("AddGeoreferencedObject", [object |-> o, requests |-> requests])
    /\ IF AlreadyRegistered(o)
       THEN /\ NoUpdate
            /\ UNCHANGED <<origin, georeferencedObjects>>
       ELSE /\ georeferencedObjects' = RegistryWithObject(o)
            /\ EndOfPass(UpdateGeoreferenceNested(RegistryWithObject(o), 1,
                                                  StartOfPass(requests)))
    /\ hostCalls' = <<>>
    /\ candidate' = 0
    /\ UNCHANGED <<phase, insideSublevel, CesiumSubLevels, WorldOriginCamera,
                   config, OriginLocation, streamingLevels, cameraLocation,
                   liveObjects, boundingVolume>>

\* ACesiumGeoreference::BeginPlay; the host has a first player controller
\* or not.
BeginPlay(hasPlayerController) ==
    /\ phase = "Ready"
    /\ isGameWorld
    /\ phase' = "Playing"
    /\ Record("BeginPlay", <<>>)
    /\ WorldOriginCamera' =
           IF WorldOriginCamera = "null" /\ hasPlayerController
           THEN "valid" ELSE WorldOriginCamera
    /\ CesiumSubLevels' =
           [k \in 1..Len(CesiumSubLevels) |->
               [CesiumSubLevels[k] EXCEPT !.CurrentlyLoaded = FALSE]]
    /\ NoUpdate
    /\ hostCalls' = <<>>
    /\ candidate' = 0
    /\ UNCHANGED <<origin, insideSublevel, georeferencedObjects, config,
                   OriginLocation, streamingLevels, cameraLocation, liveObjects,
                   boundingVolume>>

\* The load radius CheckForNewSubLevels gives a new sub-level, in metres.
DefaultLoadRadius == 1000

\* The FString of a levelName whose prefix is absent or removed.
LevelNameString(levelName) == levelName[2]

\* A search of the known levels that finds nothing.
NeverFound(levels, levelName) == FALSE

\* CheckForNewSubLevels' search of the known levels: found.
FoundAmongKnown(levels, levelName) ==
    \E k \in 1..Len(levels) : NameEquals(levelName, levels[k].LevelName)

\* A pass of the loop that adds nothing.
DiscoverNothing(levels, streamedLevel) == levels

\* One pass of CheckForNewSubLevels' loop, for one streaming level: the
\* sub-levels after it.
DiscoverStep(levels, streamedLevel) ==
    IF FoundAmongKnown(levels, LevelNameOf(streamedLevel))
    THEN levels
    ELSE Append(levels,
                SubLevel(LevelNameString(LevelNameOf(streamedLevel)),
                         OriginLongitude, OriginLatitude, OriginHeight,
                         DefaultLoadRadius, FALSE))

RECURSIVE DiscoverLoop(_, _, _)
\* CheckForNewSubLevels' loop over the streaming levels, from entry i on.
DiscoverLoop(levels, streaming, i) ==
    IF i > Len(streaming) THEN levels
    ELSE DiscoverLoop(DiscoverStep(levels, streaming[i]), streaming, i + 1)

\* ACesiumGeoreference::CheckForNewSubLevels (called from the editor).
CheckForNewSubLevels ==
    /\ phase # "Constructed"
    /\ Record("CheckForNewSubLevels", <<>>)
    /\ CesiumSubLevels' = DiscoverLoop(CesiumSubLevels, streamingLevels, 1)
    /\ NoUpdate
    /\ hostCalls' = <<>>
    /\ candidate' = 0
    /\ UNCHANGED <<phase, origin, insideSublevel, georeferencedObjects,
                   WorldOriginCamera, config, OriginLocation, streamingLevels,
                   cameraLocation, liveObjects, boundingVolume>>

\* currentSublevel && currentCesiumSublevel, after the loop.
FoundSublevel(scan) == scan.cur # 0 /\ scan.curLevel # 0

\* The final test of _updateSublevelState: the candidate is not loaded yet.
JumpsToLevel(scan) ==
    FoundSublevel(scan) /\ ~scan.levels[scan.curLevel].CurrentlyLoaded

\* A return value that tells only whether the tick switched levels.
SwitchedSublevel(scan) ==
    /\ scan.cur # 0
    /\ scan.curLevel # 0
    /\ ~scan.levels[scan.curLevel].CurrentlyLoaded

\* What _updateSublevelState returns.
UpdateSublevelStateResult(scan) == FoundSublevel(scan)

\* The flag a tick held before it ran: _insideSublevel not yet assigned.
InsideBeforeTick(found) == insideSublevel

\* this->_insideSublevel as _performOriginRebasing reads it: Tick has
\* assigned it the result of _updateSublevelState just before.
InsideAtRebasing(found) == found

\* _updateSublevelState followed by _performOriginRebasing, for a valid
\* camera: scan is the loop's result.
TickWithCamera(scan) ==
    LET found == UpdateSublevelStateResult(scan)
        jump == JumpsToLevel(scan)
        level == scan.levels[scan.curLevel]
    IN  /\ IF jump
           THEN /\ setGeoreferenceOrigin(level.LevelLongitude, level.LevelLatitude,
                                         level.LevelHeight)
                /\ streamingLevels' = SetShouldBe(scan.streaming, scan.cur, TRUE)
                /\ CesiumSubLevels' =
                       [scan.levels EXCEPT ![scan.curLevel].CurrentlyLoaded = TRUE]
           ELSE /\ NoUpdate
                /\ UNCHANGED origin
                /\ streamingLevels' = scan.streaming
                /\ CesiumSubLevels' = scan.levels
        /\ insideSublevel' = found
        /\ candidate' = scan.curLevel
        /\ LET req == performOriginRebasing(InsideAtRebasing(found))
           IN  /\ ApplyWorldOrigin(req)
               /\ hostCalls' =
                      (IF jump THEN Append(scan.calls, HostCall("load", scan.cur))
                       ELSE scan.calls)
                      \o (IF req.set
                          THEN <<HostCall("SetNewWorldOrigin", req.v)>>
                          ELSE <<>>)

\* ACesiumGeoreference::Tick.
Tick ==
    /\ phase # "Constructed"
    /\ Record("Tick", <<>>)
    /\ IF CameraValid
       THEN TickWithCamera(SublevelScan)
       ELSE /\ insideSublevel' = FALSE
            /\ candidate' = 0
            /\ NoUpdate
            /\ hostCalls' = <<>>
            /\ UNCHANGED <<origin, CesiumSubLevels, streamingLevels,
                           OriginLocation, cameraLocation>>
    /\ UNCHANGED <<phase, georeferencedObjects, WorldOriginCamera, config,
                   liveObjects, boundingVolume>>

\* ACesiumGeoreference::JumpToCurrentLevel, with CurrentLevelIndex = index
\* (an index of the TArray, from 0).
JumpToCurrentLevel(index) ==
    /\ phase # "Constructed"
    /\ Record("JumpToCurrentLevel", <<index>>)
    /\ IF index < 0 \/ index >= Len(CesiumSubLevels)
       THEN /\ NoUpdate
            /\ UNCHANGED origin
       ELSE SetGeoreferenceOriginBody(
                <<CesiumSubLevels[index + 1].LevelLongitude,
                  CesiumSubLevels[index + 1].LevelLatitude,
                  CesiumSubLevels[index + 1].LevelHeight>>)
    /\ hostCalls' = <<>>
    /\ candidate' = 0
    /\ UNCHANGED <<phase, insideSublevel, CesiumSubLevels, georeferencedObjects,
                   WorldOriginCamera, config, OriginLocation, streamingLevels,
                   cameraLocation, liveObjects, boundingVolume>>

\* The target PlaceGeoreferenceOriginHere computes from the editor
\* viewport's view location: the cartographic position of cameraToECEF[3].
PlaceTarget(viewLocation) ==
    cartesianToCartographic(CameraECEF(ueAbsToEcef, viewLocation, OriginLocation),
                            FloatDen * ueAbsToEcef.den)

\* ACesiumGeoreference::PlaceGeoreferenceOriginHere in an editor build, the
\* active viewport's camera being at viewLocation (numerators over
\* FloatDen); the viewport is then put at the new origin.  Origins above
\* WorldExtent metres are left out.
PlaceGeoreferenceOriginHere(viewLocation) ==
    /\ phase # "Constructed"
    /\ IF isGameWorld \/ PlaceTarget(viewLocation) = <<>>
       THEN TRUE
       ELSE PlaceTarget(viewLocation)[3] <= WorldExtent
    /\ Record("PlaceGeoreferenceOriginHere", viewLocation)
    /\ IF isGameWorld \/ PlaceTarget(viewLocation) = <<>>
       THEN /\ NoUpdate
            /\ UNCHANGED origin
            /\ hostCalls' = <<>>
       ELSE /\ setGeoreferenceOrigin(PlaceTarget(viewLocation)[1],
                                     PlaceTarget(viewLocation)[2],
                                     PlaceTarget(viewLocation)[3])
            /\ hostCalls' = <<HostCall("SetViewLocation", VScale(-1, OriginLocation))>>
    /\ candidate' = 0
    /\ UNCHANGED <<phase, insideSublevel, CesiumSubLevels, georeferencedObjects,
                   WorldOriginCamera, config, OriginLocation, streamingLevels,
                   cameraLocation, liveObjects, boundingVolume>>

(* ------------------------------ conversions --------------------------- *)

\* A glm::dvec3 whose coordinates are the numerators v over den.
Point(v, den) == [v |-> v, den |-> den]

\* An ECEF -> engine conversion that stops at the absolute engine frame: the
\* world's OriginLocation is not subtracted.
TransformEcefToUeAbs(ecef) ==
    Point(TransformPoint(ecefToUeAbs, ecef.v, ecef.den), ecef.den * ecefToUeAbs.den)

\* ACesiumGeoreference::TransformEcefToUe: _ecefToUeAbs * ecef, minus the
\* world's OriginLocation.
TransformEcefToUe(ecef) ==
    LET den == ecef.den * ecefToUeAbs.den
        ueAbs == TransformPoint(ecefToUeAbs, ecef.v, ecef.den)
    IN  Point(VSub(ueAbs, VScale(den, OriginLocation)), den)

\* ACesiumGeoreference::TransformUeToEcef, the actor being spawned in a
\* world: _ueAbsToEcef * (ue + OriginLocation).
TransformUeToEcef(ue) ==
    LET ueAbs == VAdd(ue.v, VScale(ue.den, OriginLocation))
    IN  Point(TransformPoint(ueAbsToEcef, ueAbs, ue.den), ue.den * ueAbsToEcef.den)

\* A call of a method that changes nothing of the georeference or the host
\* and returns value.
CallReturning(name, arg, value) ==
    /\ RecordReturning(name, arg, value)
    /\ NoUpdate
    /\ hostCalls' = <<>>
    /\ candidate' = 0
    /\ UNCHANGED <<phase, origin, insideSublevel, CesiumSubLevels,
                   georeferencedObjects, WorldOriginCamera, config,
                   OriginLocation, streamingLevels, cameraLocation, liveObjects,
                   boundingVolume>>

\* A caller converts the engine location ue.
CallTransformUeToEcef(ue) ==
    CallReturning("TransformUeToEcef", ue, TransformUeToEcef(ue))

\* A caller converts the ECEF position ecef.
CallTransformEcefToUe(ecef) ==
    CallReturning("TransformEcefToUe", ecef, TransformEcefToUe(ecef))

\* The substitute proposed in the source's TODO: an arbitrary but correct
\* coordinate, (0, 0, -EarthRadius), where the inversion has no result.
EcefToLongitudeLatitudeHeightAtCentre(ecef) ==
    LET llh == cartesianToCartographic(ecef.v, ecef.den)
    IN  IF llh = <<>> THEN <<0, 0, -EarthRadius>> ELSE llh

\* ACesiumGeoreference::TransformEcefToLongitudeLatitudeHeight: degrees,
\* degrees and metres, and (0, 0, 0) where the inversion has no result.
TransformEcefToLongitudeLatitudeHeight(ecef) ==
    LET llh == cartesianToCartographic(ecef.v, ecef.den)
    IN  IF llh = <<>> THEN <<0, 0, 0>> ELSE llh

\* ACesiumGeoreference::TransformUeToLongitudeLatitudeHeight.
TransformUeToLongitudeLatitudeHeight(ue) ==
    TransformEcefToLongitudeLatitudeHeight(TransformUeToEcef(ue))

\* A caller asks for the cartographic position of the ECEF position ecef.
CallTransformEcefToLongitudeLatitudeHeight(ecef) ==
    CallReturning("TransformEcefToLongitudeLatitudeHeight", ecef,
                  TransformEcefToLongitudeLatitudeHeight(ecef))

\* A caller asks for the cartographic position of the engine location ue.
CallTransformUeToLongitudeLatitudeHeight(ue) ==
    CallReturning("TransformUeToLongitudeLatitudeHeight", ue,
                  TransformUeToLongitudeLatitudeHeight(ue))

(* --------------------- the WMTS raster overlay component --------------- *)

\* Cesium3DTilesSelection::WebMapTileServiceRasterOverlayOptions as
\* CreateOverlay declares it: no zoom level given (<<>>; <<n>> is level n).
DefaultOptions == [minimumLevel |-> <<>>, maximumLevel |-> <<>>]

\* The zoom levels of the options CreateOverlay builds from the component's
\* properties; its other options do not depend on them.
OverlayOptions(bSpecifyZoomLevels, MinimumLevel, MaximumLevel) ==
    IF MaximumLevel > MinimumLevel /\ bSpecifyZoomLevels
    THEN [minimumLevel |-> <<MinimumLevel>>, maximumLevel |-> <<MaximumLevel>>]
    ELSE DefaultOptions

\* UCesiumWebMapTileServiceRasterOverlay::CreateOverlay, on a component
\* with these properties: the options of the overlay it returns.
CreateOverlay(bSpecifyZoomLevels, MinimumLevel, MaximumLevel) ==
    CallReturning("CreateOverlay",
                  [bSpecifyZoomLevels |-> bSpecifyZoomLevels,
                   MinimumLevel |-> MinimumLevel, MaximumLevel |-> MaximumLevel],
                  OverlayOptions(bSpecifyZoomLevels, MinimumLevel, MaximumLevel))

(* ------------------------------- the host ----------------------------- *)

\* The operations of the host leave the georeference alone.
HostStep(name) ==
    /\ phase # "Constructed"
    /\ Record("Host", <<>>)
    /\ NoUpdate
    /\ hostCalls' = <<>>
    /\ candidate' = 0
    /\ UNCHANGED <<phase, origin, insideSublevel, CesiumSubLevels,
                   georeferencedObjects, config, boundingVolume>>

\* The packages of the project's streamable levels: two of them share their
\* short name.
Packages == {<<"/Game/Maps", "", "A">>, <<"/Game/Maps", "", "B">>,
             <<"/Game/Alt", "", "A">>}

\* The host adds a streaming level to the world.
AddStreamingLevel(package) ==
    /\ Len(streamingLevels) < MaxStreaming
    /\ \A k \in 1..Len(streamingLevels) : streamingLevels[k].package # package
    /\ HostStep("AddStreamingLevel")
    /\ streamingLevels' = Append(streamingLevels, StreamingLevel(package))
    /\ UNCHANGED <<WorldOriginCamera, OriginLocation, cameraLocation, liveObjects>>

\* The host removes streaming level i from the world.
RemoveStreamingLevel(i) ==
    /\ i \in 1..Len(streamingLevels)
    /\ HostStep("RemoveStreamingLevel")
    /\ streamingLevels' =
           [k \in 1..(Len(streamingLevels) - 1) |->
               IF k < i THEN streamingLevels[k] ELSE streamingLevels[k + 1]]
    /\ UNCHANGED <<WorldOriginCamera, OriginLocation, cameraLocation, liveObjects>>

\* The viewer moves: the host gives the camera another location.
MoveViewer(location) ==
    /\ location # cameraLocation
    /\ HostStep("MoveViewer")
    /\ cameraLocation' = location
    /\ UNCHANGED <<WorldOriginCamera, OriginLocation, streamingLevels, liveObjects>>

\* The camera actor is destroyed.
DestroyCamera ==
    /\ WorldOriginCamera = "valid"
    /\ HostStep("DestroyCamera")
    /\ WorldOriginCamera' = "stale"
    /\ UNCHANGED <<OriginLocation, streamingLevels, cameraLocation, liveObjects>>

\* A georeferenced object is destroyed.
DestroyObject(o) ==
    /\ o \in liveObjects
    /\ HostStep("DestroyObject")
    /\ liveObjects' = liveObjects \ {o}
    /\ UNCHANGED <<WorldOriginCamera, OriginLocation, streamingLevels,
                   cameraLocation>>

(* ---------------------------- specifications -------------------------- *)

\* The sub-levels authored in the georeference: A where the georeference's
\* own origin is authored, B one metre above it with twice the radius.
AuthoredSubLevels(loadedA, loadedB) ==
    <<SubLevel("A", 0, 0, 0, 1, loadedA), SubLevel("B", 0, 0, 1, 2, loadedB)>>

\* The state the constructor leaves; the authored properties are the
\* specifications' to choose.
Constructed ==
    /\ phase = "Constructed"
    /\ georeferencedToEcef = IdentityMat
    /\ ecefToGeoreferenced = IdentityMat
    /\ ueAbsToEcef = IdentityMat
    /\ ecefToUeAbs = IdentityMat
    /\ insideSublevel = FALSE
    /\ georeferencedObjects = <<>>
    /\ OriginLongitude = 0
    /\ OriginLatitude = 0
    /\ OriginHeight = 0
    /\ OriginLocation = ZeroVec
    /\ cameraLocation = ZeroVec
    /\ liveObjects = Objects
    /\ lastOp = Op("construct", <<>>)
    /\ stepParity = 0
    /\ recomputations = 0
    /\ notified = <<>>
    /\ notifiedChain = <<>>
    /\ notifications = <<>>
    /\ hostCalls = <<>>
    /\ candidate = 0
    /\ returned = <<>>

\* Engine locations on the up axis, at the given numerators.
OnUpAxis(zs) == {<<0, 0, z>> : z \in zs}

\* The numerators of the engine coordinates the viewer stops at: the
\* whole units within the world's extent and the half way from 1 to 2.
ViewerCoordinates ==
    {FloatDen * u : u \in (-WorldExtent)..WorldExtent} \cup {FloatDen + FloatDen \div 2}

(* Sub-level selection: a play session in which the viewer moves up and    *)
(* down through the sub-levels while the host changes its streaming levels *)
(* and callers set the origin.                                             *)

InitLevels ==
    /\ Constructed
    /\ OriginPlacement = "CartographicOrigin"
    /\ CesiumSubLevels \in {AuthoredSubLevels(FALSE, FALSE),
                            AuthoredSubLevels(FALSE, TRUE)}
    /\ WorldOriginCamera = "null"
    /\ KeepWorldOriginNearCamera = FALSE
    /\ OriginRebaseInsideSublevels = FALSE
    /\ MaximumWorldOriginDistanceFromCamera = 2
    /\ isGameWorld = TRUE
    /\ streamingLevels = <<>>
    /\ boundingVolume = [o \in Objects |-> "notReady"]

NextLevels ==
    \/ OnConstruction
    \/ \E b \in BOOLEAN : BeginPlay(b)
    \/ Tick
    \/ \E package \in Packages : AddStreamingLevel(package)
    \/ \E i \in 1..MaxStreaming : RemoveStreamingLevel(i)
    \/ \E location \in OnUpAxis(ViewerCoordinates) : MoveViewer(location)
    \/ SetGeoreferenceOrigin(<<0, 0, 0>>)

SpecLevels == InitLevels /\ [][NextLevels]_vars

(* The origin and the registry: callers set the origin and register       *)
(* objects, objects are destroyed, and the viewer moves into and out of    *)
(* the one streamed sub-level, in an editor world.                         *)

\* The bounding volume of object o, when it has one: its centre, in metres.
CenterOf(o) == <<EarthRadius + 2 * o - 1, 0, 0>>

\* The engine location of sub-level A's origin when the engine frame is the
\* ECEF frame itself, scaled (true-origin placement).
AtSubLevelUnplaced == <<EarthRadius * UnitsPerMeter * FloatDen, 0, 0>>

InitOrigin ==
    /\ Constructed
    /\ OriginPlacement \in {"TrueOrigin", "BoundingVolumeOrigin", "CartographicOrigin"}
    /\ CesiumSubLevels = AuthoredSubLevels(FALSE, FALSE)
    /\ WorldOriginCamera = "valid"
    /\ KeepWorldOriginNearCamera = FALSE
    /\ OriginRebaseInsideSublevels = FALSE
    /\ MaximumWorldOriginDistanceFromCamera = 2
    /\ isGameWorld = FALSE
    /\ streamingLevels = <<StreamingLevel(<<"/Game/Maps", "", "A">>)>>
    /\ boundingVolume = [o \in Objects |-> CenterOf(o)]

NextOrigin ==
    \/ OnConstruction
    \/ \E target \in OriginArgs : SetGeoreferenceOrigin(target)
    \/ \E target \in OriginArgs : InaccurateSetGeoreferenceOrigin(target)
    \/ \E o \in Objects : AddGeoreferencedObject(o)
    \/ \E o \in Objects : DestroyObject(o)
    \/ Tick
    \/ \E location \in OnUpAxis({0, FloatDen * WorldExtent}) \cup {AtSubLevelUnplaced} :
           MoveViewer(location)

SpecOrigin == InitOrigin /\ [][NextOrigin]_vars

(* Origin rebasing: a viewer moving east and up, far enough for the world  *)
(* origin to follow and to reach the ends of the integer range, with one   *)
(* streamed sub-level around the georeference's origin; the camera may be  *)
(* destroyed.                                                              *)

\* The numerators of the engine coordinates the viewer takes eastwards,
\* relative to the world origin: none, the maximum distance, and one unit
\* more than a quarter of the integer range in either direction.
RebaseCoordinates ==
    {0, 2 * FloatDen,
     FloatDen * (2 ^ (IntBits - 2) + 1), -(FloatDen * (2 ^ (IntBits - 2) + 1))}

\* And upwards: none, the maximum distance, and a fraction below -1.
RebaseHeights == {0, 2 * FloatDen, -(FloatDen + FloatDen \div 2)}

InitRebase ==
    /\ Constructed
    /\ OriginPlacement = "CartographicOrigin"
    /\ CesiumSubLevels = AuthoredSubLevels(FALSE, FALSE)
    /\ WorldOriginCamera \in {"null", "valid"}
    /\ KeepWorldOriginNearCamera \in BOOLEAN
    /\ OriginRebaseInsideSublevels \in BOOLEAN
    /\ MaximumWorldOriginDistanceFromCamera = 2
    /\ isGameWorld \in BOOLEAN
    /\ streamingLevels = <<StreamingLevel(<<"/Game/Maps", "", "A">>)>>
    /\ boundingVolume = [o \in Objects |-> "notReady"]

NextRebase ==
    \/ OnConstruction
    \/ \E b \in BOOLEAN : BeginPlay(b)
    \/ Tick
    \/ \E x \in RebaseCoordinates, z \in RebaseHeights : MoveViewer(<<x, 0, z>>)
    \/ DestroyCamera

SpecRebase == InitRebase /\ [][NextRebase]_vars

(* Sub-level discovery in the editor: the host's streaming levels come and *)
(* go, some of them without a sub-level of their name, the origin is set   *)
(* one metre up, and CheckForNewSubLevels is called now and then; the      *)
(* viewer stays where the georeference's default origin is.                *)

\* The packages of the project's streamable levels: two of them share their
\* short name, and none is authored as a sub-level but A.
DiscoveryPackages == {<<"/Game/Maps", "", "A">>, <<"/Game/Maps", "", "C">>,
                      <<"/Game/Alt", "", "A">>}

InitDiscovery ==
    /\ Constructed
    /\ OriginPlacement = "CartographicOrigin"
    /\ CesiumSubLevels \in {<<>>, <<SubLevel("A", 0, 0, 0, 1, FALSE)>>}
    /\ WorldOriginCamera = "valid"
    /\ KeepWorldOriginNearCamera = FALSE
    /\ OriginRebaseInsideSublevels = FALSE
    /\ MaximumWorldOriginDistanceFromCamera = 2
    /\ isGameWorld = FALSE
    /\ streamingLevels = <<>>
    /\ boundingVolume = [o \in Objects |-> "notReady"]

NextDiscovery ==
    \/ OnConstruction
    \/ CheckForNewSubLevels
    \/ Tick
    \/ \E package \in DiscoveryPackages : AddStreamingLevel(package)
    \/ \E i \in 1..MaxStreaming : RemoveStreamingLevel(i)
    \/ SetGeoreferenceOrigin(<<0, 0, 1>>)

SpecDiscovery == InitDiscovery /\ [][NextDiscovery]_vars

(* Conversions: callers convert positions between the engine frame and     *)
(* ECEF while the origin is set, an object with a bounding volume is       *)
(* registered and, in a play session, the world origin follows the viewer. *)

\* How far the viewer goes from the world origin, as a numerator: one unit
\* more than a quarter of the integer range.
ConversionReach == FloatDen * (2 ^ (IntBits - 2) + 1)

\* Where the viewer goes, relative to the world origin: nowhere, or east
\* and down.
ConversionViewer == {ZeroVec, <<ConversionReach, 0, -ConversionReach>>}

\* The origins callers set.
ConversionOrigins == {<<0, 0, 1>>, <<90, 0, 0>>}

\* The engine locations callers convert, in whole and half units.
UePoints ==
    {Point(<<0, 0, 0>>, FloatDen), Point(<<0, -FloatDen, 1>>, FloatDen),
     Point(<<FloatDen * WorldExtent, 1, -1>>, FloatDen)}

\* The ECEF positions callers convert, in whole and half metres.
EcefPoints ==
    {Point(<<EarthRadius * FloatDen, 0, 0>>, FloatDen),
     Point(<<1, -1, FloatDen>>, FloatDen)}

InitConversion ==
    /\ Constructed
    /\ OriginPlacement \in {"TrueOrigin", "BoundingVolumeOrigin", "CartographicOrigin"}
    /\ CesiumSubLevels = <<>>
    /\ WorldOriginCamera = "valid"
    /\ KeepWorldOriginNearCamera = TRUE
    /\ OriginRebaseInsideSublevels = FALSE
    /\ MaximumWorldOriginDistanceFromCamera = 2
    /\ isGameWorld = TRUE
    /\ streamingLevels = <<>>
    /\ boundingVolume = [o \in Objects |-> CenterOf(o)]

NextConversion ==
    \/ OnConstruction
    \/ BeginPlay(TRUE)
    \/ \E target \in ConversionOrigins : SetGeoreferenceOrigin(target)
    \/ AddGeoreferencedObject(1)
    \/ Tick
    \/ \E location \in ConversionViewer : MoveViewer(location)
    \/ \E ue \in UePoints : CallTransformUeToEcef(ue)
    \/ \E ecef \in EcefPoints : CallTransformEcefToUe(ecef)

SpecConversion == InitConversion /\ [][NextConversion]_vars

(* The raster overlay: the component's zoom-level properties are edited    *)
(* and CreateOverlay is called, beside a georeference nothing is done to.  *)

\* The zoom levels an editor may enter: int32, here from -1 up.
ZoomLevels == (-1)..MaxZoomLevel

InitOverlay ==
    /\ Constructed
    /\ OriginPlacement = "CartographicOrigin"
    /\ CesiumSubLevels = <<>>
    /\ WorldOriginCamera = "null"
    /\ KeepWorldOriginNearCamera = FALSE
    /\ OriginRebaseInsideSublevels = FALSE
    /\ MaximumWorldOriginDistanceFromCamera = 2
    /\ isGameWorld = FALSE
    /\ streamingLevels = <<>>
    /\ boundingVolume = [o \in Objects |-> "notReady"]

NextOverlay ==
    \E specify \in BOOLEAN, minimum \in ZoomLevels, maximum \in ZoomLevels :
        CreateOverlay(specify, minimum, maximum)

SpecOverlay == InitOverlay /\ [][NextOverlay]_vars

(* Bounding-volume placement in the editor: objects whose bounding volume  *)
(* is not ready, is ready but absent, or has a centre are registered and   *)
(* destroyed, and the origin is set.                                       *)

\* What an object may report of its bounding volume: not ready, ready but
\* none, or a volume (with its centre).
VolumeKinds == {"notReady", "none", "volume"}

InitVolumes ==
    /\ Constructed
    /\ OriginPlacement = "BoundingVolumeOrigin"
    /\ CesiumSubLevels = <<>>
    /\ WorldOriginCamera = "null"
    /\ KeepWorldOriginNearCamera = FALSE
    /\ OriginRebaseInsideSublevels = FALSE
    /\ MaximumWorldOriginDistanceFromCamera = 2
    /\ isGameWorld = FALSE
    /\ streamingLevels = <<>>
    /\ \E kind \in [Objects -> VolumeKinds] :
           boundingVolume =
               [o \in Objects |-> IF kind[o] = "volume" THEN CenterOf(o) ELSE kind[o]]

NextVolumes ==
    \/ OnConstruction
    \/ \E o \in Objects : AddGeoreferencedObject(o)
    \/ \E o \in Objects : DestroyObject(o)
    \/ SetGeoreferenceOrigin(<<0, 0, 1>>)

SpecVolumes == InitVolumes /\ [][NextVolumes]_vars

(* The editor: with a camera assigned and one sub-level streamed, the      *)
(* origin is set by callers, by the level index and from the viewport,     *)
(* while ticks select the sub-level.                                       *)

\* Where the editor viewport's camera is when the origin is placed: at the
\* engine origin or a metre above it.
ViewLocations == OnUpAxis({0, UnitsPerMeter * FloatDen})

\* The ECEF positions callers convert in the editor: the centre of the
\* ellipsoid and a point a metre above the equator.
EditorEcefPoints ==
    {Point(ZeroVec, FloatDen), Point(<<(EarthRadius + 1) * FloatDen, 0, 0>>, FloatDen)}

\* The engine locations callers convert in the editor: the engine origin, a
\* metre above it, and the point EarthRadius + 1 metres below it (the
\* centre of the ellipsoid when the origin is a metre above the surface).
EditorUePoints ==
    {Point(v, FloatDen) :
        v \in OnUpAxis({0, UnitsPerMeter * FloatDen,
                        -((EarthRadius + 1) * UnitsPerMeter * FloatDen)})}

\* The values CurrentLevelIndex is given: the indices of the authored
\* sub-levels, one below and one above.
LevelIndices == (-1)..Len(AuthoredSubLevels(FALSE, FALSE))

InitEditor ==
    /\ Constructed
    /\ OriginPlacement \in {"TrueOrigin", "CartographicOrigin"}
    /\ CesiumSubLevels = AuthoredSubLevels(FALSE, FALSE)
    /\ WorldOriginCamera = "valid"
    /\ KeepWorldOriginNearCamera = FALSE
    /\ OriginRebaseInsideSublevels = FALSE
    /\ MaximumWorldOriginDistanceFromCamera = 2
    /\ isGameWorld = FALSE
    /\ streamingLevels = <<StreamingLevel(<<"/Game/Maps", "", "A">>)>>
    /\ boundingVolume = [o \in Objects |-> "notReady"]

NextEditor ==
    \/ OnConstruction
    \/ Tick
    \/ \E location \in OnUpAxis({0, FloatDen * WorldExtent}) \cup {AtSubLevelUnplaced} :
           MoveViewer(location)
    \/ SetGeoreferenceOrigin(<<0, 0, 1>>)
    \/ InaccurateSetGeoreferenceOrigin(<<0, 0, 1>>)
    \/ \E index \in LevelIndices : JumpToCurrentLevel(index)
    \/ \E viewLocation \in ViewLocations : PlaceGeoreferenceOriginHere(viewLocation)
    \/ AddGeoreferencedObject(1)
    \/ \E ecef \in EditorEcefPoints : CallTransformEcefToLongitudeLatitudeHeight(ecef)
    \/ \E ue \in EditorUePoints : CallTransformUeToLongitudeLatitudeHeight(ue)

SpecEditor == InitEditor /\ [][NextEditor]_vars

(* Objects that call back: callers set the origin and register objects     *)
(* whose NotifyGeoreferenceUpdated may request an origin itself, objects   *)
(* are destroyed, and ticks take the georeference into and out of the one  *)
(* streamed sub-level.                                                     *)

\* The origin object o requests from its callback the n-th time it is
\* called during an operation: a place of its own, n metres up.
RequestOf(o, n) == <<90 * (o - 1), 0, n>>

\* What the objects' callbacks request during one operation: each object
\* nothing, or up to MaxRequests origins on its successive calls.
CallbackRequests ==
    {[o \in Objects |-> [k \in 1..n[o] |-> RequestOf(o, k)]] :
        n \in [Objects -> 0..MaxRequests]}

InitNotify ==
    /\ Constructed
    /\ OriginPlacement \in {"TrueOrigin", "CartographicOrigin"}
    /\ CesiumSubLevels = AuthoredSubLevels(FALSE, FALSE)
    /\ WorldOriginCamera = "valid"
    /\ KeepWorldOriginNearCamera = FALSE
    /\ OriginRebaseInsideSublevels = FALSE
    /\ MaximumWorldOriginDistanceFromCamera = 2
    /\ isGameWorld = FALSE
    /\ streamingLevels = <<StreamingLevel(<<"/Game/Maps", "", "A">>)>>
    /\ boundingVolume = [o \in Objects |-> "notReady"]

NextNotify ==
    \/ OnConstruction
    \/ \E requests \in CallbackRequests :
           SetGeoreferenceOriginCallingBack(<<0, 0, 0>>, requests)
    \/ \E o \in Objects, requests \in CallbackRequests :
           AddGeoreferencedObjectCallingBack(o, requests)
    \/ \E o \in Objects : DestroyObject(o)
    \/ Tick
    \/ \E location \in {ZeroVec, <<0, 0, FloatDen * WorldExtent>>} :
           MoveViewer(location)

SpecNotify == InitNotify /\ [][NextNotify]_vars

(* ------------------------------ properties ---------------------------- *)

\* The step is a Tick (lastOp' names it, and stepParity makes every
\* operation a change of state).
TickStep == lastOp'.name = "Tick"

LoadedLevels(levels) == {k \in 1..Len(levels) : levels[k].CurrentlyLoaded}

\* Sub-level k is matched to one of the host's streaming levels.
Matched(k) ==
    \E i \in 1..Len(streamingLevels) :
        NameEquals(LevelNameOf(streamingLevels[i]), CesiumSubLevels[k].LevelName)

\* The viewer's distance (squared) from sub-level k, with the chain and the
\* world origin the tick starts from.
ViewerDistanceSq(k) ==
    LevelDistanceSq(CesiumSubLevels[k],
                    CameraECEF(ueAbsToEcef, cameraLocation, OriginLocation))

\* The viewer is within sub-level k's own load radius.
ViewerWithin(k) == WithinLoadRadius(CesiumSubLevels[k], ViewerDistanceSq(k))

\* The sub-levels a tick may select.
Eligible == {k \in 1..Len(CesiumSubLevels) : Matched(k) /\ ViewerWithin(k)}

\* The host was asked, in the last operation, to unload (load) and hide
\* (show) a streaming level of sub-level k's name.
HostAsked(op, k) ==
    \E c \in 1..Len(hostCalls') :
        /\ hostCalls'[c].op = op
        /\ hostCalls'[c].target \in 1..Len(streamingLevels')
        /\ NameEquals(LevelNameOf(streamingLevels'[hostCalls'[c].target]),
                      CesiumSubLevels[k].LevelName)

\* The last operation was SetGeoreferenceOrigin or its FVector variant.
SetOriginStep ==
    lastOp'.name \in {"SetGeoreferenceOrigin", "InaccurateSetGeoreferenceOrigin"}

\* The registered objects that are alive, in the order of their registration.
LiveRegistered ==
    SelectSeq(georeferencedObjects, LAMBDA o : o \in liveObjects)

\* C1: SetGeoreferenceOrigin and InaccurateSetGeoreferenceOrigin, called
\* while the inside-sub-level flag is true, leave the origin and the four
\* matrices as they were and notify no object.
C1_SetOriginInsideIsNoOp ==
    [][(SetOriginStep /\ insideSublevel) =>
         /\ origin' = origin
         /\ chain' = chain
         /\ notified' = <<>>
         /\ recomputations' = 0]_vars

\* C1's case: inside a sub-level, with a live object registered, a caller
\* has asked for an origin other than the stored one.
C1_Witness ==
    /\ lastOp.name = "SetGeoreferenceOrigin"
    /\ insideSublevel
    /\ lastOp.arg # origin
    /\ LiveRegistered # <<>>

\* C2: SetGeoreferenceOrigin, called while the inside-sub-level flag is
\* false, stores the given origin, rebuilds the chain for it (in cartographic
\* placement the frame sits at the origin's ECEF position, and the chain's
\* two halves are inverse to one another), and notifies every live
\* registered object exactly once, in the order of registration.
C2_SetOriginOutsideNotifies ==
    [][(lastOp'.name = "SetGeoreferenceOrigin" /\ ~insideSublevel) =>
         /\ origin' = lastOp'.arg
         /\ recomputations' = 1
         /\ (OriginPlacement = "CartographicOrigin" =>
                georeferencedToEcef'.t =
                    cartographicToCartesian(lastOp'.arg[1], lastOp'.arg[2],
                                            lastOp'.arg[3]))
         /\ MatMul(ecefToGeoreferenced', georeferencedToEcef') = IdentityMat
         /\ \A v \in {<<1, 0, 0>>, <<0, 1, 0>>, <<0, 0, 1>>} :
                TransformPoint(ecefToUeAbs',
                               TransformPoint(ueAbsToEcef', VScale(UnitsPerMeter, v), 1),
                               UnitsPerMeter)
                    = VScale(UnitsPerMeter * UnitsPerMeter, v)
         /\ notified' = LiveRegistered]_vars

\* C2's case: outside every sub-level, with two live objects registered in
\* the order 2, 1, a caller has moved the origin away from its default and
\* both objects were notified, 2 first.
C2_Witness ==
    /\ lastOp.name = "SetGeoreferenceOrigin"
    /\ ~insideSublevel
    /\ origin = lastOp.arg
    /\ origin # <<0, 0, 0>>
    /\ Len(notified) = 2
    /\ notified[1] > notified[2]

\* The last operation was AddGeoreferencedObject(o).
AddStep(o) == lastOp' = Op("AddGeoreferencedObject", <<o>>)

\* Object o has an entry in the registry.
Registered(o) ==
    \E k \in 1..Len(georeferencedObjects) : georeferencedObjects[k] = o

\* No object has two entries in the sequence.
NoDuplicates(objs) ==
    \A j, k \in 1..Len(objs) : objs[j] = objs[k] => j = k

\* C14: AddGeoreferencedObject with an object that is registered leaves the
\* registry as it is, recomputes nothing and notifies nothing; no sequence of
\* registrations gives an object two entries.
C14_DuplicateAddIsNoOp ==
    [][/\ NoDuplicates(georeferencedObjects')
       /\ \A o \in Objects :
              (AddStep(o) /\ Registered(o)) =>
                  /\ georeferencedObjects' = georeferencedObjects
                  /\ recomputations' = 0
                  /\ notified' = <<>>
                  /\ chain' = chain]_vars

\* C14's case: with both objects registered, the one registered first has
\* been added again.
C14_Witness ==
    /\ lastOp.name = "AddGeoreferencedObject"
    /\ Len(georeferencedObjects) = 2
    /\ lastOp.arg = <<georeferencedObjects[1]>>
    /\ recomputations = 0

\* C15: AddGeoreferencedObject with an object that is not registered appends
\* it to the registry and runs one recomputation and notification pass, in
\* which the earlier live objects are notified in order and the new object
\* last, whether or not the inside-sub-level flag is set.
C15_NewAddNotifiesAtOnce ==
    [][\A o \in Objects :
           (AddStep(o) /\ ~Registered(o)) =>
               /\ georeferencedObjects' = georeferencedObjects \o <<o>>
               /\ recomputations' = 1
               /\ notified' = LiveRegistered \o <<o>>
               /\ origin' = origin]_vars

\* C15's case: inside a sub-level, a second object has been registered and
\* both were notified, the new one last.
C15_Witness ==
    /\ lastOp.name = "AddGeoreferencedObject"
    /\ insideSublevel
    /\ recomputations = 1
    /\ Len(notified) = 2
    /\ <<notified[2]>> = lastOp.arg

\* The objects with a live entry in the registry after the step.
LiveEntries ==
    {georeferencedObjects'[k] : k \in 1..Len(georeferencedObjects')}
        \cap liveObjects'

RECURSIVE CenterSum(_)
\* The sum of the bounding-volume centres of a set of objects.
CenterSum(S) ==
    IF S = {} THEN ZeroVec
    ELSE LET o == CHOOSE x \in S : TRUE
         IN  VAdd(boundingVolume[o], CenterSum(S \ {o}))

\* The mean of the bounding-volume centres of the live entries (the centre
\* of the ellipsoid when there is none).
LiveCenter ==
    IF LiveEntries = {} THEN ZeroVec
    ELSE LET sum == CenterSum(LiveEntries)
             n == Cardinality(LiveEntries)
         IN  <<sum[1] \div n, sum[2] \div n, sum[3] \div n>>

\* C16: every recomputation and notification pass skips the entries whose
\* object is destroyed: the objects notified are the live entries, in the
\* order of registration, and in bounding-volume placement the frame sits at
\* the mean centre of the live entries alone.
C16_DestroyedEntriesSkipped ==
    [][recomputations' = 1 =>
         /\ notified' =
                SelectSeq(georeferencedObjects', LAMBDA o : o \in liveObjects')
         /\ \A k \in 1..Len(notified') : notified'[k] \in liveObjects'
         /\ OriginPlacement = "BoundingVolumeOrigin" =>
                georeferencedToEcef'.t = LiveCenter]_vars

\* C16's case: in bounding-volume placement a pass has run over a registry
\* that holds a destroyed object in front of a live one.
C16_Witness ==
    /\ recomputations = 1
    /\ OriginPlacement = "BoundingVolumeOrigin"
    /\ Len(georeferencedObjects) = 2
    /\ georeferencedObjects[1] \notin liveObjects
    /\ notified = <<georeferencedObjects[2]>>

\* The four matrices c belong together: the second is the inverse of the
\* first, and the engine-frame matrices are the first and the second combined
\* with the engine's unit scale and axis flip.
ChainAsUnit(c) ==
    /\ MatMul(c[2], c[1]) = IdentityMat
    /\ MatMul(c[1], c[2]) = IdentityMat
    /\ c[3] = MatMul(MatMul(c[1], scaleToCesium), unrealToOrFromCesium)
    /\ c[4] = MatMul(MatMul(unrealToOrFromCesium, scaleToUnrealWorld), c[2])

\* C19: once the georeference has been set up (OnConstruction), after every
\* operation the four matrices belong together, and whenever objects are
\* notified the matrices in place are the four of the finished
\* recomputation, never a mixture of old and new ones.
C19_ChainUpdatedAsUnit ==
    phase # "Constructed" =>
        /\ ChainAsUnit(chain)
        /\ recomputations = 1 =>
               /\ ChainAsUnit(notifiedChain)
               /\ notifiedChain = chain

\* C19's case: an origin change away from the default has rebuilt the
\* chain and notified an object.
C19_Witness ==
    /\ lastOp.name = "SetGeoreferenceOrigin"
    /\ recomputations = 1
    /\ origin = <<90, 0, 0>>
    /\ OriginPlacement = "CartographicOrigin"
    /\ notified # <<>>
    /\ georeferencedToEcef # IdentityMat

\* C20: in true-origin placement every recomputation leaves the identity as
\* the georeferenced-to-ECEF matrix, whatever origin is stored and whichever
\* operation, the tick's switch of sub-levels included, recomputes.
C20_TrueOriginIsIdentity ==
    [][(OriginPlacement = "TrueOrigin" /\ recomputations' = 1) =>
         georeferencedToEcef' = Affine(<<<<1, 0, 0>>, <<0, 1, 0>>, <<0, 0, 1>>>>,
                                       <<0, 0, 0>>, 1)]_vars

\* C20's case: in true-origin placement the tick has switched to a
\* sub-level's origin and recomputed.
C20_Witness ==
    /\ OriginPlacement = "TrueOrigin"
    /\ lastOp.name = "Tick"
    /\ recomputations = 1
    /\ origin = <<0, 0, 0>>
    /\ georeferencedToEcef = IdentityMat

\* C3: from BeginPlay on, at most one sub-level has CurrentlyLoaded set.
C3_AtMostOneLoaded ==
    phase = "Playing" => Cardinality(LoadedLevels(CesiumSubLevels)) <= 1

\* C4: after a tick with a valid viewer the candidate is a matched sub-level
\* within its own load radius, no such sub-level is nearer to the viewer, and
\* the candidate is marked loaded; there is no candidate when no sub-level
\* is matched and within its radius.
C4_NearestWithinRadius ==
    [][(TickStep /\ CameraValid) =>
         IF Eligible = {} THEN candidate' = 0
         ELSE /\ candidate' \in Eligible
              /\ \A e \in Eligible :
                     ViewerDistanceSq(candidate') <= ViewerDistanceSq(e)
              /\ CesiumSubLevels'[candidate'].CurrentlyLoaded]_vars

\* C4's case: two sub-levels are within their radius at different
\* distances, the farther one first in the host's list, and the tick has
\* chosen the nearer.
C4_Witness ==
    /\ lastOp.name = "Tick"
    /\ candidate = 2
    /\ Len(streamingLevels) = 2
    /\ NameEquals(LevelNameOf(streamingLevels[1]), "A")
    /\ hostCalls = <<HostCall("unload", 1), HostCall("load", 2)>>

\* C5: after a tick with a valid viewer every sub-level other than the
\* candidate that was marked loaded is marked unloaded, and the host was
\* asked to unload and hide it.
C5_OthersUnloaded ==
    [][(TickStep /\ CameraValid) =>
         \A k \in LoadedLevels(CesiumSubLevels) :
             k # candidate' =>
                 /\ ~CesiumSubLevels'[k].CurrentlyLoaded
                 /\ HostAsked("unload", k)]_vars

\* C6: a tick that finds the viewer outside every sub-level's load radius
\* leaves all sub-levels unloaded, the origin and the chain as they were, and
\* the inside-sub-level flag false.
C6_OutsideAll ==
    [][(/\ TickStep
        /\ CameraValid
        /\ \A k \in 1..Len(CesiumSubLevels) : ~ViewerWithin(k)) =>
         /\ LoadedLevels(CesiumSubLevels') = {}
         /\ origin' = origin
         /\ chain' = chain
         /\ ~insideSublevel']_vars

\* C7: a tick switches the origin and asks the host to load a level exactly
\* when there is a candidate that was not marked loaded when the tick began;
\* the origin is then the candidate's.
C7_SwitchIffCandidateUnloaded ==
    [][TickStep =>
         /\ (recomputations' = 1) <=>
                (candidate' # 0 /\ ~CesiumSubLevels[candidate'].CurrentlyLoaded)
         /\ (recomputations' = 1) <=>
                (\E c \in 1..Len(hostCalls') : hostCalls'[c].op = "load")
         /\ (recomputations' = 1) =>
                origin' = <<CesiumSubLevels[candidate'].LevelLongitude,
                            CesiumSubLevels[candidate'].LevelLatitude,
                            CesiumSubLevels[candidate'].LevelHeight>>]_vars

\* C8: after every tick the inside-sub-level flag tells whether the tick had
\* a candidate (a matched sub-level with the valid viewer within its
\* radius), and then the candidate is marked loaded.
C8_InsideIffCandidate ==
    [][TickStep =>
         /\ insideSublevel' = (CameraValid /\ Eligible # {})
         /\ insideSublevel' = (candidate' # 0)
         /\ insideSublevel' => CesiumSubLevels'[candidate'].CurrentlyLoaded]_vars

\* C8's case: a tick has found a candidate and set the flag.
C8_Witness ==
    /\ lastOp.name = "Tick"
    /\ insideSublevel
    /\ candidate # 0
    /\ recomputations = 0

\* The last operation asked the host for a new world origin.
OriginRequested ==
    \E c \in 1..Len(hostCalls') : hostCalls'[c].op = "SetNewWorldOrigin"

\* _performOriginRebasing gets past its three guards and does not take the
\* branch that resets the world origin inside a sub-level.
RebasingByDistance ==
    /\ TickStep
    /\ isGameWorld
    /\ CameraValid
    /\ KeepWorldOriginNearCamera
    /\ ~(insideSublevel' /\ ~OriginRebaseInsideSublevels)

\* The integer part of the engine float f / FloatDen, toward zero.
TruncatedOffset(f) ==
    CHOOSE n \in -(Abs(f))..Abs(f) :
        /\ n * f >= 0
        /\ Abs(n) * FloatDen <= Abs(f)
        /\ Abs(f) < (Abs(n) + 1) * FloatDen

\* s within the range of the world origin's components, else the nearer end.
Saturated(s) ==
    IF s > Int32Max THEN Int32Max ELSE IF s < Int32Min THEN Int32Min ELSE s

\* C9: when a tick moves the world origin after the viewer, each component
\* of the new origin is the viewer's truncated offset plus the old component
\* if that sum is within the integer range, the range's upper end if the sum
\* is above it and its lower end if the sum is below; no component wraps.
C9_ShiftSaturatesPerAxis ==
    [][(RebasingByDistance /\ OriginRequested) =>
         \A a \in 1..3 :
             OriginLocation'[a] =
                 Saturated(TruncatedOffset(cameraLocation[a]) + OriginLocation[a])]_vars

\* C9's case: the eastward component has stopped at the upper end of the
\* range, leaving the viewer a unit or more east of the world origin, while
\* the upward component followed the viewer below zero by whole units.
C9_Witness ==
    /\ lastOp.name = "Tick"
    /\ \E c \in 1..Len(hostCalls) : hostCalls[c].op = "SetNewWorldOrigin"
    /\ OriginLocation[1] = Int32Max
    /\ cameraLocation[1] >= FloatDen
    /\ OriginLocation[3] < 0
    /\ OriginLocation[3] > Int32Min
    /\ cameraLocation[3] = -(FloatDen \div 2)

\* C10: in a game-world tick with a valid viewer, rebasing enabled and the
\* reset branch not taken, a new world origin is requested exactly when the
\* viewer's Euclidean distance from the world origin exceeds the maximum
\* distance; otherwise the world origin stays as it was.
C10_RebaseIffEuclideanDistanceExceeds ==
    [][RebasingByDistance =>
         /\ OriginRequested <=>
                LengthSq(cameraLocation) >
                    (MaximumWorldOriginDistanceFromCamera * FloatDen)
                    * (MaximumWorldOriginDistanceFromCamera * FloatDen)
         /\ ~OriginRequested => OriginLocation' = OriginLocation]_vars

\* The requests for a new world origin the last operation made.
OriginRequests ==
    SelectSeq(hostCalls', LAMBDA c : c.op = "SetNewWorldOrigin")

\* _performOriginRebasing gets past its three guards.
RebasingActive ==
    /\ TickStep
    /\ isGameWorld
    /\ CameraValid
    /\ KeepWorldOriginNearCamera

\* C11: a tick that finds the viewer inside a sub-level while rebasing inside
\* sub-levels is disabled never moves the world origin after the viewer: the
\* world origin stays or becomes zero; with rebasing active it asks once for
\* the origin (0,0,0) if the world origin is not zero, and asks for nothing
\* if it is zero, however far the viewer is from the world origin.
C11_InsideSublevelOnlyResets ==
    [][(TickStep /\ insideSublevel' /\ ~OriginRebaseInsideSublevels) =>
         /\ OriginLocation' \in {OriginLocation, ZeroVec}
         /\ \A c \in 1..Len(OriginRequests) : OriginRequests[c].target = ZeroVec
         /\ OriginLocation = ZeroVec => OriginRequests = <<>>
         /\ (RebasingActive /\ OriginLocation # ZeroVec) =>
                /\ OriginRequests = <<HostCall("SetNewWorldOrigin", ZeroVec)>>
                /\ OriginLocation' = ZeroVec]_vars

\* C11's case: inside a sub-level, with rebasing inside sub-levels disabled,
\* a tick has reset a world origin that lay beyond the maximum distance from
\* the viewer (the viewer, now at its absolute position, is within the
\* sub-level's radius of the zero origin).
C11_Witness ==
    /\ lastOp.name = "Tick"
    /\ insideSublevel
    /\ ~OriginRebaseInsideSublevels
    /\ OriginLocation = ZeroVec
    /\ \E c \in 1..Len(hostCalls) :
           hostCalls[c] = HostCall("SetNewWorldOrigin", ZeroVec)
    /\ ~DistanceTooLarge(cameraLocation, MaximumWorldOriginDistanceFromCamera)

\* The world origin that follows the viewer: clampedAdd on each axis.
FollowingOrigin ==
    <<clampedAdd(cameraLocation[1], OriginLocation[1]),
      clampedAdd(cameraLocation[2], OriginLocation[2]),
      clampedAdd(cameraLocation[3], OriginLocation[3])>>

\* C12: rebasing goes by the inside-sub-level flag the same tick has
\* computed.  With rebasing inside sub-levels disabled, the tick in which the
\* viewer enters a sub-level makes no request that follows the viewer (at
\* most the reset to zero), and the tick in which the viewer leaves all
\* sub-levels rebases again: with rebasing active it requests the following
\* origin exactly when the viewer is beyond the maximum distance on an axis.
C12_RebasingUsesThisTicksFlag ==
    [][(TickStep /\ ~OriginRebaseInsideSublevels) =>
         /\ (~insideSublevel /\ insideSublevel') =>
                /\ OriginLocation' \in {OriginLocation, ZeroVec}
                /\ \A c \in 1..Len(OriginRequests) :
                       OriginRequests[c].target = ZeroVec
         /\ (insideSublevel /\ ~insideSublevel' /\ RebasingActive) =>
                IF DistanceTooLarge(cameraLocation,
                                    MaximumWorldOriginDistanceFromCamera)
                THEN /\ OriginRequests =
                            <<HostCall("SetNewWorldOrigin", FollowingOrigin)>>
                     /\ OriginLocation' = FollowingOrigin
                ELSE /\ OriginRequests = <<>>
                     /\ OriginLocation' = OriginLocation]_vars

\* C12's case: the tick that unloaded the sub-level the viewer has left also
\* moved the world origin after the viewer.
C12_Witness ==
    /\ lastOp.name = "Tick"
    /\ ~insideSublevel
    /\ ~OriginRebaseInsideSublevels
    /\ Len(hostCalls) = 2
    /\ hostCalls[1].op = "unload"
    /\ hostCalls[2].op = "SetNewWorldOrigin"
    /\ hostCalls[2].target # ZeroVec
    /\ OriginLocation = hostCalls[2].target

\* C13: a tick made while there is no valid viewer changes nothing: origin,
\* chain, the sub-levels with their loaded flags, the inside-sub-level flag
\* and the world origin keep their values, and the host is asked for nothing.
C13_NoViewerNoOp ==
    [][(TickStep /\ ~CameraValid) =>
         /\ origin' = origin
         /\ chain' = chain
         /\ CesiumSubLevels' = CesiumSubLevels
         /\ insideSublevel' = insideSublevel
         /\ OriginLocation' = OriginLocation
         /\ hostCalls' = <<>>]_vars

\* The last operation was CheckForNewSubLevels.
CheckStep == lastOp'.name = "CheckForNewSubLevels"

\* After the step, sub-level k bears the name of the host's streaming level i.
NamedAfter(k, i) ==
    NameEquals(LevelNameOf(streamingLevels'[i]), CesiumSubLevels'[k].LevelName)

\* After the step, every streaming level of the host has a sub-level of its
\* name.
AllDiscovered ==
    \A i \in 1..Len(streamingLevels') :
        \E k \in 1..Len(CesiumSubLevels') : NamedAfter(k, i)

\* The entries the step has added: those behind the ones that were there.
NewEntries == (Len(CesiumSubLevels) + 1)..Len(CesiumSubLevels')

\* Entry k, added by the step, carries the origin current at the step, the
\* default radius, and is not loaded.
FreshEntry(k) ==
    /\ CesiumSubLevels'[k].LevelLongitude = OriginLongitude
    /\ CesiumSubLevels'[k].LevelLatitude = OriginLatitude
    /\ CesiumSubLevels'[k].LevelHeight = OriginHeight
    /\ CesiumSubLevels'[k].LoadRadius = 1000
    /\ ~CesiumSubLevels'[k].CurrentlyLoaded

\* C17, as claimed: after any tick every streaming level of the host has a
\* registered sub-level of its name (discovery being the tick's first step).
C17_TickDiscovers == [][TickStep => AllDiscovered]_vars

\* C17, amended: discovery is no part of a tick.  A tick adds and removes no
\* sub-level and changes nothing of an entry but its loaded flag; it is the
\* call of CheckForNewSubLevels after which every streaming level of the
\* host has a sub-level of its name, the ones discovered by that call
\* carrying the origin current at the call and the default radius.
C17_DiscoveryOnlyOnRequest ==
    [][/\ TickStep =>
              /\ Len(CesiumSubLevels') = Len(CesiumSubLevels)
              /\ \A k \in 1..Len(CesiumSubLevels) :
                     [CesiumSubLevels'[k] EXCEPT !.CurrentlyLoaded = FALSE]
                         = [CesiumSubLevels[k] EXCEPT !.CurrentlyLoaded = FALSE]
       /\ CheckStep =>
              /\ AllDiscovered
              /\ \A k \in NewEntries : FreshEntry(k)]_vars

\* C17's case: with the origin moved one metre up, a call of
\* CheckForNewSubLevels has discovered a streaming level, and the new
\* sub-level carries that origin.
C17_Witness ==
    /\ lastOp.name = "CheckForNewSubLevels"
    /\ Len(CesiumSubLevels) = 2
    /\ CesiumSubLevels[2].LevelHeight = 1
    /\ CesiumSubLevels[2].LoadRadius = DefaultLoadRadius
    /\ origin = <<0, 0, 1>>

\* C18: CheckForNewSubLevels only adds.  The entries that were there stay as
\* they were, in place; every entry added bears the name of a streaming level
\* that had no sub-level, carries the current origin, radius 1000 and
\* loaded = false; each such name gets exactly one entry, however often the
\* host's list repeats it; and a second run on the same list adds nothing.
C18_DiscoveryIsAdditive ==
    [][CheckStep =>
         /\ Len(CesiumSubLevels') >= Len(CesiumSubLevels)
         /\ SubSeq(CesiumSubLevels', 1, Len(CesiumSubLevels)) = CesiumSubLevels
         /\ \A k \in NewEntries :
                /\ FreshEntry(k)
                /\ \E i \in 1..Len(streamingLevels) : NamedAfter(k, i)
                /\ \A j \in 1..Len(CesiumSubLevels') :
                       CesiumSubLevels'[j].LevelName = CesiumSubLevels'[k].LevelName
                           => j = k
         /\ \A i \in 1..Len(streamingLevels) :
                Cardinality({k \in 1..Len(CesiumSubLevels') : NamedAfter(k, i)}) = 1
         /\ DiscoverLoop(CesiumSubLevels', streamingLevels', 1) = CesiumSubLevels']_vars

\* C18's case: the host's list holds two levels of the short name A, no
\* sub-level of that name was registered, and the call has added one.
C18_Witness ==
    /\ lastOp.name = "CheckForNewSubLevels"
    /\ Len(streamingLevels) = 2
    /\ \A i \in 1..2 : NameEquals(LevelNameOf(streamingLevels[i]), "A")
    /\ Len(CesiumSubLevels) = 1
    /\ CesiumSubLevels[1].LoadRadius = DefaultLoadRadius

\* The place in the host's list of the first streaming level of sub-level
\* k's name.
FirstStreamed(k) ==
    CHOOSE i \in 1..Len(streamingLevels) :
        /\ NameEquals(LevelNameOf(streamingLevels[i]), CesiumSubLevels[k].LevelName)
        /\ \A j \in 1..(i - 1) :
               ~NameEquals(LevelNameOf(streamingLevels[j]),
                           CesiumSubLevels[k].LevelName)

\* The sub-levels a tick may select that are at the least distance from the
\* viewer.
Nearest ==
    {k \in Eligible : \A e \in Eligible : ViewerDistanceSq(k) <= ViewerDistanceSq(e)}

\* C21: when two or more matched sub-levels are within their radius at the
\* same least distance from the viewer, the tick's candidate is the one whose
\* streaming level comes first in the host's list, and the others are
\* unloaded when the tick ends.
C21_TieFirstEncounteredWins ==
    [][(TickStep /\ CameraValid /\ Cardinality(Nearest) >= 2) =>
         /\ candidate' \in Nearest
         /\ \A k \in Nearest :
                k # candidate' =>
                    /\ FirstStreamed(candidate') < FirstStreamed(k)
                    /\ ~CesiumSubLevels'[k].CurrentlyLoaded]_vars

\* C21's case: a tick without a switch of origin has kept its candidate
\* while another matched sub-level, within its radius, is exactly as far
\* from the viewer.
C21_Witness ==
    /\ lastOp.name = "Tick"
    /\ recomputations = 0
    /\ candidate # 0
    /\ \E k \in 1..Len(CesiumSubLevels) :
           /\ k # candidate
           /\ k \in Eligible
           /\ ViewerDistanceSq(k) = ViewerDistanceSq(candidate)

\* Two points are the same position.
SamePoint(a, b) == VScale(b.den, a.v) = VScale(a.den, b.v)

\* C22: the conversions between the engine frame and ECEF are mutual
\* inverses, whatever the origin and the world's origin location:
\* TransformEcefToUe takes what TransformUeToEcef returned back to the
\* engine location it was called with, and TransformUeToEcef takes what
\* TransformEcefToUe returned back to the ECEF position.
C22_ConversionsAreInverses ==
    /\ lastOp.name = "TransformUeToEcef" =>
           SamePoint(TransformEcefToUe(returned), lastOp.arg)
    /\ lastOp.name = "TransformEcefToUe" =>
           SamePoint(TransformUeToEcef(returned), lastOp.arg)

\* C22's case: a position has been converted while the world origin is
\* away from zero on two axes and the frame is a local one away from the
\* default origin, and the result is another triple than the argument.
C22_Witness ==
    /\ lastOp.name \in {"TransformUeToEcef", "TransformEcefToUe"}
    /\ OriginLocation[1] # 0
    /\ OriginLocation[3] # 0
    /\ origin = <<90, 0, 0>>
    /\ OriginPlacement = "CartographicOrigin"
    /\ ~SamePoint(returned, lastOp.arg)

\* C23: the overlay CreateOverlay returns has the configured minimum and
\* maximum zoom levels in its options whenever 'specify zoom levels' is
\* enabled, whatever the two levels are, and no level when it is disabled.
C23_SpecifiedLevelsArePassed ==
    lastOp.name = "CreateOverlay" =>
        IF lastOp.arg.bSpecifyZoomLevels
        THEN /\ returned.minimumLevel = <<lastOp.arg.MinimumLevel>>
             /\ returned.maximumLevel = <<lastOp.arg.MaximumLevel>>
        ELSE returned = DefaultOptions

\* The three guards of origin rebasing.
RebasingEnabled == isGameWorld /\ CameraValid /\ KeepWorldOriginNearCamera

\* C24: a tick moves the world origin, or asks the host to, only in a game
\* world, with a valid viewer and with KeepWorldOriginNearCamera set;
\* otherwise it requests neither the shift after the viewer nor the reset to
\* zero.  Whatever these settings, a tick with a valid viewer selects the
\* sub-level: the flag tells whether a matched sub-level has the viewer
\* within its radius, and a candidate not yet loaded gets the origin
\* switched to its own and its level requested.
C24_RebasingGuards ==
    [][TickStep =>
         /\ (OriginRequested \/ OriginLocation' # OriginLocation) => RebasingEnabled
         /\ CameraValid =>
                /\ insideSublevel' = (Eligible # {})
                /\ (candidate' # 0) = (Eligible # {})
                /\ (candidate' # 0 /\ ~CesiumSubLevels[candidate'].CurrentlyLoaded) =>
                       /\ recomputations' = 1
                       /\ origin' = <<CesiumSubLevels[candidate'].LevelLongitude,
                                      CesiumSubLevels[candidate'].LevelLatitude,
                                      CesiumSubLevels[candidate'].LevelHeight>>
                       /\ HostAsked("load", candidate')
                       /\ CesiumSubLevels'[candidate'].CurrentlyLoaded]_vars

\* C24's case: a tick has run with a valid viewer farther from the world
\* origin than the maximum, in an editor world or with
\* KeepWorldOriginNearCamera off, and has left the world origin alone.
C24_Witness ==
    /\ lastOp.name = "Tick"
    /\ CameraValid
    /\ ~isGameWorld \/ ~KeepWorldOriginNearCamera
    /\ DistanceTooLarge(cameraLocation, MaximumWorldOriginDistanceFromCamera)
    /\ hostCalls = <<>>
    /\ OriginLocation = ZeroVec

\* The objects the centre is computed from after the step: registered, not
\* destroyed, their bounding volume ready and present.
Counted ==
    {o \in LiveEntries : boundingVolume[o] # "notReady" /\ boundingVolume[o] # "none"}

\* C25: in bounding-volume placement every recomputation puts the frame at
\* the average of the bounding-volume centres of the registered objects
\* that are alive, report their volume ready and return one, and at the
\* centre of the ellipsoid when there is no such object.
C25_CentreIsMeanOfReadyVolumes ==
    [][(recomputations' = 1 /\ OriginPlacement = "BoundingVolumeOrigin") =>
         /\ VScale(Cardinality(Counted), georeferencedToEcef'.t) = CenterSum(Counted)
         /\ Counted = {} => georeferencedToEcef'.t = ZeroVec
         /\ georeferencedToEcef' = eastNorthUpToFixedFrame(georeferencedToEcef'.t)]_vars

\* C25's case: a recomputation over a registry of two live objects, the
\* first ready without a bounding volume, has put the frame at the centre
\* of the second.
C25_Witness ==
    /\ recomputations = 1
    /\ OriginPlacement = "BoundingVolumeOrigin"
    /\ Len(georeferencedObjects) = 2
    /\ \A k \in 1..2 : georeferencedObjects[k] \in liveObjects
    /\ boundingVolume[georeferencedObjects[1]] = "none"
    /\ georeferencedToEcef.t = boundingVolume[georeferencedObjects[2]]

\* Streaming level i of the host's list after the step is matched to
\* sub-level k.
MatchedAfter(i, k) ==
    NameEquals(LevelNameOf(streamingLevels'[i]), CesiumSubLevels'[k].LevelName)

\* C26: a tick in a play session marks a matched sub-level loaded only
\* together with a request to load and show its level and marks it unloaded
\* only together with a request to unload and hide it, and after the tick
\* the host has been asked to load a matched level exactly if its sub-level
\* is marked loaded.
C26_HostStateFollowsLoadedFlag ==
    [][(TickStep /\ phase = "Playing") =>
         /\ \A k \in 1..Len(CesiumSubLevels) :
                Matched(k) =>
                    /\ (~CesiumSubLevels[k].CurrentlyLoaded
                            /\ CesiumSubLevels'[k].CurrentlyLoaded) =>
                           HostAsked("load", k)
                    /\ (CesiumSubLevels[k].CurrentlyLoaded
                            /\ ~CesiumSubLevels'[k].CurrentlyLoaded) =>
                           HostAsked("unload", k)
         /\ \A i \in 1..Len(streamingLevels'), k \in 1..Len(CesiumSubLevels') :
                MatchedAfter(i, k) =>
                    /\ streamingLevels'[i].shouldBeLoaded =
                           CesiumSubLevels'[k].CurrentlyLoaded
                    /\ streamingLevels'[i].shouldBeVisible =
                           CesiumSubLevels'[k].CurrentlyLoaded]_vars

\* C27: in a play session, after every tick and every call that sets the
\* origin, the inside-sub-level flag is true whenever a sub-level is marked
\* loaded, and a SetGeoreferenceOrigin called while one is marked loaded
\* changes nothing.
C27_LoadedImpliesInside ==
    [][phase = "Playing" =>
         /\ (TickStep \/ SetOriginStep) =>
                (LoadedLevels(CesiumSubLevels') # {} => insideSublevel')
         /\ (SetOriginStep /\ LoadedLevels(CesiumSubLevels) # {}) =>
                /\ origin' = origin
                /\ chain' = chain
                /\ recomputations' = 0]_vars

\* The origin of sub-level k as authored.
LevelOrigin(k) ==
    <<CesiumSubLevels[k].LevelLongitude, CesiumSubLevels[k].LevelLatitude,
      CesiumSubLevels[k].LevelHeight>>

\* C28: in a play session, whenever the inside-sub-level flag is true a
\* sub-level is marked loaded and the stored origin is the origin of the
\* sub-level marked loaded.
C28_InsideOriginIsLoadedLevels ==
    (phase = "Playing" /\ insideSublevel) =>
        \E k \in LoadedLevels(CesiumSubLevels) : origin = LevelOrigin(k)

\* C29: a tick that follows another tick at once, the viewer, the world
\* origin and the host's list of levels being what they were for the first,
\* asks the host for no load or unload, does not switch the origin, and
\* leaves the inside-sub-level flag as the first tick set it.
C29_StationaryViewerIsStable ==
    [][(lastOp.name = "Tick" /\ TickStep) =>
         /\ \A c \in 1..Len(hostCalls') : hostCalls'[c].op \notin {"load", "unload"}
         /\ recomputations' = 0
         /\ origin' = origin
         /\ insideSublevel' = insideSublevel]_vars

\* The entry points that are to leave the origin alone inside a sub-level.
OriginEntryPoints ==
    {"SetGeoreferenceOrigin", "InaccurateSetGeoreferenceOrigin",
     "JumpToCurrentLevel", "PlaceGeoreferenceOriginHere", "AddGeoreferencedObject"}

\* C30: while the inside-sub-level flag is true the stored origin changes
\* only when a tick switches to its candidate; SetGeoreferenceOrigin,
\* InaccurateSetGeoreferenceOrigin, JumpToCurrentLevel,
\* PlaceGeoreferenceOriginHere and AddGeoreferencedObject leave it as it was.
C30_OriginFixedWhileInside ==
    [][insideSublevel =>
         /\ origin' # origin =>
                /\ TickStep
                /\ candidate' # 0
                /\ origin' = LevelOrigin(candidate')
         /\ lastOp'.name \in OriginEntryPoints => origin' = origin]_vars

\* Everything of the georeference and of the host, the record of the last
\* operation left out.
programState == <<phase, origin, chain, insideSublevel, CesiumSubLevels,
                  georeferencedObjects, WorldOriginCamera, config,
                  OriginLocation, streamingLevels, cameraLocation, liveObjects,
                  boundingVolume>>

\* The step converts an ECEF position that is the centre of the ellipsoid.
EcefCentreConverted ==
    /\ lastOp'.name = "TransformEcefToLongitudeLatitudeHeight"
    /\ lastOp'.arg.v = ZeroVec

\* The step converts an engine location whose ECEF position, by the chain
\* and the world origin in place, is the centre of the ellipsoid.
UeCentreConverted ==
    /\ lastOp'.name = "TransformUeToLongitudeLatitudeHeight"
    /\ TransformPoint(ueAbsToEcef,
                      VAdd(lastOp'.arg.v, VScale(lastOp'.arg.den, OriginLocation)),
                      lastOp'.arg.den) = ZeroVec

\* The step places the origin from an editor viewport whose camera is at
\* the centre of the ellipsoid.
PlacedAtCentre ==
    /\ lastOp'.name = "PlaceGeoreferenceOriginHere"
    /\ ~isGameWorld
    /\ CameraECEF(ueAbsToEcef, lastOp'.arg, OriginLocation) = ZeroVec

\* C31: where the ECEF -> cartographic inversion has no result (the centre
\* of the ellipsoid), TransformEcefToLongitudeLatitudeHeight and
\* TransformUeToLongitudeLatitudeHeight return the substitute (0, 0, 0) and
\* change nothing, and PlaceGeoreferenceOriginHere returns with the origin
\* and the chain as they were, no recomputation, nobody notified and the
\* viewport left alone.
C31_NoResultChangesNothing ==
    [][/\ (EcefCentreConverted \/ UeCentreConverted) =>
              /\ returned' = <<0, 0, 0>>
              /\ programState' = programState
              /\ recomputations' = 0
              /\ notified' = <<>>
       /\ PlacedAtCentre =>
              /\ programState' = programState
              /\ recomputations' = 0
              /\ notified' = <<>>
              /\ hostCalls' = <<>>]_vars

\* The viewport's camera was at the centre of the ellipsoid when the origin
\* was placed in the editor, a live object being registered: nobody was
\* notified.
C31_Witness ==
    /\ lastOp.name = "PlaceGeoreferenceOriginHere"
    /\ ~isGameWorld
    /\ CameraECEF(ueAbsToEcef, lastOp.arg, OriginLocation) = ZeroVec
    /\ \E i \in 1..Len(georeferencedObjects) : IsValidObject(georeferencedObjects[i])
    /\ notified = <<>>
    /\ recomputations = 0

\* The step is a call of SetGeoreferenceOrigin or AddGeoreferencedObject by
\* a caller, with objects that may call back.
CallingBackStep ==
    /\ lastOp'.name \in {"SetGeoreferenceOrigin", "AddGeoreferencedObject"}
    /\ recomputations' > 0

\* The registered objects that are alive once the step is made, in the
\* order of their registration.
LiveRegisteredAfter ==
    SelectSeq(georeferencedObjects', LAMBDA o : o \in liveObjects')

\* Call k of the step is the n-th call of its object's callback.
CallNumber(k) ==
    Cardinality({j \in 1..k : notifications'[j].object = notifications'[k].object})

\* The callback called by call k of the step requests an origin.
RequestsOrigin(k) ==
    CallNumber(k) <= Len(lastOp'.arg.requests[notifications'[k].object])

\* The origin it requests.
RequestedOrigin(k) ==
    lastOp'.arg.requests[notifications'[k].object][CallNumber(k)]

\* The first call after call k that is not made from inside call k's
\* callback (the number of the calls and one, if there is none).
Resumes(k) ==
    LET later == {j \in (k + 1)..Len(notifications') :
                     notifications'[j].depth <= notifications'[k].depth}
    IN  IF later = {} THEN Len(notifications') + 1
        ELSE CHOOSE j \in later : \A i \in later : j <= i

\* The objects called by the pass that call k's callback starts, in order.
NestedPass(k) ==
    LET inside == SubSeq(notifications', k + 1, Resumes(k) - 1)
        pass == SelectSeq(inside, LAMBDA c : c.depth = notifications'[k].depth + 1)
    IN  [i \in 1..Len(pass) |-> pass[i].object]

\* The engine -> ECEF matrix UpdateGeoreference computes for the origin.
RecomputedFor(lonLatHeight) ==
    ChainFor(GeoreferencedToEcefFor(OriginPlacement, lonLatHeight[1],
                                    lonLatHeight[2], lonLatHeight[3],
                                    georeferencedObjects'))[3]

\* The position of call k's object among the live registered objects.
PlaceOf(k) ==
    CHOOSE i \in 1..Len(LiveRegisteredAfter) :
        LiveRegisteredAfter[i] = notifications'[k].object

\* C32: notification is synchronous and nothing guards it against
\* reentrancy.  A pass in which no callback requests an origin ends with
\* every live registered object notified exactly once, in one run of
\* UpdateGeoreference.  A callback that calls SetGeoreferenceOrigin while
\* the inside-sub-level flag is false starts a nested pass at once: the
\* requested origin is stored and the matrices are recomputed for it, every
\* live registered object is notified by the nested pass, and only then
\* does the outer pass go on with the object after the caller.
C32_NestedPassBeforeOuterResumes ==
    [][CallingBackStep =>
         /\ (\A k \in 1..Len(notifications') : ~RequestsOrigin(k)) =>
                /\ notified' = LiveRegisteredAfter
                /\ recomputations' = 1
         /\ \A k \in 1..Len(notifications') :
                (RequestsOrigin(k) /\ ~insideSublevel) =>
                    /\ k < Len(notifications')
                    /\ notifications'[k + 1].depth = notifications'[k].depth + 1
                    /\ notifications'[k + 1].origin = RequestedOrigin(k)
                    /\ notifications'[k + 1].ueAbsToEcef =
                           RecomputedFor(RequestedOrigin(k))
                    /\ NestedPass(k) = LiveRegisteredAfter
                    /\ PlaceOf(k) < Len(LiveRegisteredAfter) =>
                           /\ Resumes(k) <= Len(notifications')
                           /\ notifications'[Resumes(k)].depth =
                                  notifications'[k].depth
                           /\ notifications'[Resumes(k)].object =
                                  LiveRegisteredAfter[PlaceOf(k) + 1]
         /\ recomputations' =
                1 + Cardinality({k \in 1..Len(notifications') :
                                    RequestsOrigin(k) /\ ~insideSublevel})]_vars

\* SetGeoreferenceOrigin was called with two live objects registered, and
\* the first one requested an origin from its callback: it was called, the
\* nested pass called both, and the outer pass then called the second.
C32_Witness ==
    /\ lastOp.name = "SetGeoreferenceOrigin"
    /\ Len(georeferencedObjects) = 2
    /\ Len(notifications) = 4
    /\ notifications[1].depth = 1
    /\ notifications[2].depth = 2
    /\ notifications[3].depth = 2
    /\ notifications[4].depth = 1
    /\ notifications[1].object = georeferencedObjects[1]
    /\ notifications[4].object = georeferencedObjects[2]
    /\ notifications[2].origin # notifications[1].origin
    /\ recomputations = 2

=============================================================================
